---- MODULE Spec2Model ----
(***************************************************************************)
(* Directory ingestion and live-sync engine of PasteMax (src/main.js):     *)
(* the request-file-list handler, the recursive chunked walk               *)
(* readFilesRecursively, cancelDirectoryLoading, the safety timer, and the *)
(* chokidar watcher with its single-file pipeline processSingleFile.       *)
(*                                                                         *)
(* The main process is one JavaScript event loop.  An action of this model *)
(* is one event-loop turn: one IPC message, one timer callback or one I/O  *)
(* completion, followed by every continuation that runs before the next    *)
(* real suspension (an await of readdir, stat, readFile or watcher.close). *)
(* Paths are sequences of segments relative to the scanned root.           *)
(***************************************************************************)
EXTENDS Integers, Sequences, FiniteSets, TLC

\* ------------------------------------------------------------------ bounds
\* number of request-file-list messages the renderer sends in one run
MaxRequests == 2
\* number of filesystem notifications chokidar raises in one run
MaxNotifications == 1
\* longest text handed to countTokens, in characters and special-token literals
MaxTextLen == 3
\* longest file list handed to formatContentForCopying
MaxFiles == 3
\* longest .gitignore, in pattern lines, the ignored predicate is called with
MaxRules == 2

\* ------------------------------------------------------- program constants
MAX_DIRECTORY_LOAD_TIME == 60000
MAX_FILE_SIZE == 5242880
CHUNK_SIZE == 20

Handlers == 1..MaxRequests

\* ------------------------------------------------------- the scanned tree
VARIABLES
  probe                \* a call of a pure function: its arguments and result;
                       \* or the folder the renderer asks to scan

\* the folder of the request-file-list messages of a run
ScannedFolder == IF probe.op = "scan" THEN probe.folder ELSE "root"

\* the user has rewritten the root's .gitignore during the run
GitignoreEdited == probe.op = "scan" /\ probe.edited

\* the log files of the wide folder, all matched by its .gitignore
LogNames ==
  << "01.log", "02.log", "03.log", "04.log", "05.log", "06.log", "07.log",
     "08.log", "09.log", "10.log", "11.log", "12.log", "13.log", "14.log",
     "15.log", "16.log", "17.log", "18.log", "19.log" >>

File(n) == [name |-> n, kind |-> "file"]

\* readdir of the wide folder: one sub-directory and 22 files, of which the
\* first 20 form the first batch
WideDirents(dir) ==
  IF dir = <<>>
  THEN << File("w1.txt"), [name |-> "d", kind |-> "dir"], File("w2.txt") >>
       \o [i \in 1..18 |-> File(LogNames[i])]
       \o << File("w3.txt"), File(LogNames[19]) >>
  ELSE IF dir = <<"d">> THEN << File("e.txt") >>
  ELSE << >>

\* readdir of the dotted folder: a directory and a file whose names begin
\* with two dots, next to an ordinary file
DottedDirents(dir) ==
  IF dir = <<>>
  THEN << [name |-> "..cache", kind |-> "dir"], File("..rc"), File("a.txt") >>
  ELSE IF dir = <<"..cache">> THEN << File("m.js") >>
  ELSE << >>

\* fs.promises.readdir(dir, {withFileTypes: true}) of the modelled root
Dirents(dir) ==
  IF ScannedFolder = "wide" THEN WideDirents(dir)
  ELSE IF ScannedFolder = "dotted" THEN DottedDirents(dir)
  ELSE
  IF dir = <<>> THEN << [name |-> "node_modules", kind |-> "dir"],
                        [name |-> "sub", kind |-> "dir"],
                        [name |-> "b.txt", kind |-> "file"],
                        [name |-> "yarn.lock", kind |-> "file"],
                        [name |-> "a.txt", kind |-> "file"] >>
  ELSE IF dir = <<"sub">> THEN << [name |-> "c.BIN", kind |-> "file"],
                                  [name |-> "big.bin", kind |-> "file"] >>
  ELSE IF dir = <<"node_modules">> THEN << [name |-> "m.js", kind |-> "file"] >>
  ELSE << >>

\* stats.size of a file of the tree
FileSize(p) ==
  IF p = <<"a.txt">> THEN 2
  ELSE IF p = <<"sub", "c.BIN">> THEN MAX_FILE_SIZE
  ELSE IF p = <<"sub", "big.bin">> THEN MAX_FILE_SIZE + 1
  ELSE 1

\* what readFile(p, "utf8") yields, as a sequence of characters
FileContent(p) ==
  IF p = <<"a.txt">> THEN <<"h", "i">> ELSE <<"x">>

\* error codes a failing readdir, stat or readFile carries
ErrCodes == {"EPERM", "ENOENT", "EIO"}

\* how an I/O operation on p may settle during a run: a.txt may turn
\* unreadable or vanish, sub may turn inaccessible, sub/c.BIN may vanish
IoOutcomes(p) ==
  IF p = <<"a.txt">> \/ p = <<"sub">> THEN {"ok"} \cup ErrCodes
  ELSE IF p = <<"sub", "c.BIN">> THEN {"ok", "ENOENT"}
  ELSE {"ok"}

\* the lines of the root's .gitignore after split and trim
GitignoreLines ==
  IF ScannedFolder = "wide"
  THEN << [kind |-> "pattern", neg |-> FALSE, name |-> "*.log"] >>
  ELSE IF GitignoreEdited
  THEN << [kind |-> "pattern", neg |-> FALSE, name |-> "a.txt"] >>
  ELSE
  << [kind |-> "comment", neg |-> FALSE, name |-> "#build"],
     [kind |-> "blank", neg |-> FALSE, name |-> ""],
     [kind |-> "pattern", neg |-> FALSE, name |-> "b.txt"] >>

\* ------------------------------------------------------------ capabilities
VARIABLES
  ignoreLoaded,        \* require("ignore") succeeded (main.js 99-113)
  chokidarLoaded,      \* require("chokidar") succeeded (main.js 119-127)
  encoderReady         \* tiktoken encoder initialised (main.js 140-153)

\* ------------------------------------------------------------ IgnoreEngine
DefaultIgnores ==
  << ".git", "node_modules", ".DS_Store", "Thumbs.db", "desktop.ini",
     ".idea", ".vscode", "dist", "build", "out" >>

\* the list exported by ./excluded-files (not part of the listed sources)
excludedFiles == << "package-lock.json", "yarn.lock", ".env" >>

\* the list exported by ./excluded-files (not part of the listed sources)
binaryExtensions == { ".bin", ".png", ".exe" }

Rule(n) == [neg |-> FALSE, name |-> n]

RECURSIVE MapRules(_)
MapRules(names) ==
  IF names = <<>> THEN <<>> ELSE <<Rule(Head(names))>> \o MapRules(Tail(names))

\* the patterns kept from the .gitignore text: blank and comment lines dropped
ParseGitignore(lines) ==
  LET kept == SelectSeq(lines, LAMBDA l : l.kind = "pattern")
  IN  [i \in 1..Len(kept) |-> [neg |-> kept[i].neg, name |-> kept[i].name]]

\* the rule list of the filter loadGitignore returns
loadGitignore(lines) ==
  ParseGitignore(lines) \o MapRules(DefaultIgnores) \o MapRules(excludedFiles)

\* a pattern matches a segment of that name; *.log matches the log files
PatternMatches(pattern, seg) ==
  \/ pattern = seg
  \/ pattern = "*"
  \/ pattern = "*.log" /\ \E i \in 1..Len(LogNames) : LogNames[i] = seg

\* verdict of the rule list on one path segment: the last matching rule wins
SegmentIgnored(rules, seg) ==
  LET hits == { i \in 1..Len(rules) : PatternMatches(rules[i].name, seg) }
  IN  hits # {} /\ ~rules[CHOOSE i \in hits : \A j \in hits : j <= i].neg

\* ignoreFilter.ignores(relativePath): a path is ignored when it or one of its
\* parent directories is
Ignores(rules, rel) == \E k \in 1..Len(rel) : SegmentIgnored(rules, rel[k])

\* ------------------------------------------------------------ path helpers
\* path.extname of the names of the tree
ExtName(name) ==
  CASE name = "a.txt" -> ".txt"
    [] name = "b.txt" -> ".txt"
    [] name = "c.BIN" -> ".BIN"
    [] name = "big.bin" -> ".bin"
    [] name = "m.js" -> ".js"
    [] name = "yarn.lock" -> ".lock"
    [] name \in { "w1.txt", "w2.txt", "w3.txt", "e.txt" } -> ".txt"
    [] \E i \in 1..Len(LogNames) : LogNames[i] = name -> ".log"
    [] OTHER -> ""

\* String.toLowerCase, toUpperCase and substring(1) on the extensions above
ToLowerCase(e) ==
  CASE e = ".BIN" -> ".bin" [] e = "BIN" -> "bin" [] OTHER -> e
ToUpperCase(e) ==
  CASE e = "bin" -> "BIN" [] e = "txt" -> "TXT" [] e = "js" -> "JS" [] OTHER -> e
Substring1(e) ==
  CASE e = ".txt" -> "txt" [] e = ".BIN" -> "BIN" [] e = ".bin" -> "bin"
    [] e = ".js" -> "js" [] OTHER -> ""

\* app.getAppPath(): the application's own directory, outside the scanned root
AppPath == <<"..", "pastemax">>

\* the names of the modelled trees that begin with two dots
DotDotNames == { "..", "..cache", "..rc" }

\* !isValidPath(relativePath) || relativePath.startsWith('..'): path.parse
\* throws for no string, so the test is the one on the first two characters
OutsideRoot(rel) == rel # <<>> /\ Head(rel) \in DotDotNames

\* /\.app($|\/)/.test(fullPath)
IsAppBundle(rel) == \E k \in 1..Len(rel) : rel[k] = "Tool.app"

isBinaryFile(name) == ToLowerCase(ExtName(name)) \in binaryExtensions

\* ------------------------------------------------------------ TokenCounter
Sentinel == "<|endoftext|>"
OtherSpecial == "<|endofprompt|>"

\* text.length: a special-token literal counts its characters
RECURSIVE TextLength(_)
TextLength(text) ==
  IF text = <<>> THEN 0
  ELSE (IF Head(text) = Sentinel THEN 13
        ELSE IF Head(text) = OtherSpecial THEN 15 ELSE 1) + TextLength(Tail(text))

CeilDiv4(n) == (n + 3) \div 4

\* encoder.encode: rejects a text holding a special token, else two characters
\* per token (a stand-in for the o200k_base merges)
EncodeThrows(text) == \E i \in 1..Len(text) : text[i] = OtherSpecial
EncodeLength(text) == (Len(text) + 1) \div 2

\* Faulty variant of countTokens whose fallback measures the cleaned text.
countTokensOfCleanText(text) ==
  LET cleanText == SelectSeq(text, LAMBDA c : c # Sentinel)
  IN  IF ~encoderReady THEN CeilDiv4(TextLength(cleanText))
      ELSE IF EncodeThrows(cleanText) THEN CeilDiv4(TextLength(cleanText))
           ELSE EncodeLength(cleanText)

countTokens(text) ==
  IF ~encoderReady THEN CeilDiv4(TextLength(text))
  ELSE LET cleanText == SelectSeq(text, LAMBDA c : c # Sentinel)
       IN  IF EncodeThrows(cleanText) THEN CeilDiv4(TextLength(text))
           ELSE EncodeLength(cleanText)

\* --------------------------------------------- records of the scanner task
Null == [null |-> TRUE]

ErrorText(code) ==
  IF code = "EPERM" THEN "Permission denied"
  ELSE IF code = "ENOENT" THEN "File not found" ELSE "Could not read file"

ScanTooLarge(name, rel, size) ==
  [name |-> name, relativePath |-> rel, tokenCount |-> 0, size |-> size,
   content |-> <<>>, isBinary |-> FALSE, isSkipped |-> TRUE,
   error |-> "File too large to process"]

ScanBinary(name, rel, size) ==
  [name |-> name, relativePath |-> rel, tokenCount |-> 0, size |-> size,
   content |-> <<>>, isBinary |-> TRUE, isSkipped |-> FALSE,
   fileType |-> ToUpperCase(Substring1(ExtName(name)))]

ScanNormal(name, rel, size, text) ==
  [name |-> name, relativePath |-> rel, content |-> text,
   tokenCount |-> countTokens(text), size |-> size,
   isBinary |-> FALSE, isSkipped |-> FALSE]

\* the catch block of the per-file task: the object has no content key
ScanError(name, rel, code) ==
  [name |-> name, relativePath |-> rel, tokenCount |-> 0, size |-> 0,
   isBinary |-> FALSE, isSkipped |-> TRUE, error |-> ErrorText(code)]

\* ------------------------------------------- records of processSingleFile
SingleBase(name, rel, size) ==
  [name |-> name, relativePath |-> rel, size |-> size, isBinary |-> FALSE,
   isSkipped |-> FALSE, content |-> <<>>, tokenCount |-> 0,
   excludedByDefault |-> Ignores(MapRules(excludedFiles), rel)]

SingleTooLarge(name, rel, size) ==
  [name |-> name, relativePath |-> rel, size |-> size, isBinary |-> FALSE,
   isSkipped |-> TRUE, content |-> <<>>, tokenCount |-> 0,
   excludedByDefault |-> Ignores(MapRules(excludedFiles), rel),
   error |-> "File too large to process"]

SingleBinary(name, rel, size, ext) ==
  [name |-> name, relativePath |-> rel, size |-> size, isBinary |-> TRUE,
   isSkipped |-> FALSE, content |-> <<>>, tokenCount |-> 0,
   excludedByDefault |-> Ignores(MapRules(excludedFiles), rel),
   fileType |-> ToUpperCase(ext)]

SingleNormal(name, rel, size, text) ==
  [SingleBase(name, rel, size) EXCEPT !.content = text,
                                      !.tokenCount = countTokens(text)]

\* the catch block (270-285)
SingleError(name, rel, code) ==
  [name |-> name, relativePath |-> rel, size |-> 0, isBinary |-> FALSE,
   isSkipped |-> TRUE, error |-> <<"Error: ", code>>, content |-> <<>>,
   tokenCount |-> 0,
   excludedByDefault |-> Ignores(MapRules(excludedFiles), rel)]

\* processSingleFile up to its first await (215-236): "null" or "stat"
SingleStart(rel, rules) ==
  IF OutsideRoot(rel) THEN "null"
  ELSE IF Ignores(rules, rel) THEN "null"
  ELSE "stat"

\* processSingleFile after stat settled (236-265): a record, or Null when it
\* goes on to readFile
SingleAfterStat(rel, outcome) ==
  LET name == rel[Len(rel)]
      ext == ToLowerCase(Substring1(ExtName(name)))
  IN  IF outcome # "ok" THEN SingleError(name, rel, outcome)
      ELSE IF FileSize(rel) > MAX_FILE_SIZE
           THEN SingleTooLarge(name, rel, FileSize(rel))
      ELSE IF ext \in binaryExtensions
           THEN SingleBinary(name, rel, FileSize(rel), ext)
      ELSE Null

\* processSingleFile after readFile settled (265-269)
SingleAfterRead(rel, outcome) ==
  LET name == rel[Len(rel)]
  IN  IF outcome # "ok" THEN SingleError(name, rel, outcome)
      ELSE SingleNormal(name, rel, FileSize(rel), FileContent(rel))

\* Faulty variant of WatcherIgnored that compiles the .gitignore anew.
WatcherIgnoredReloading(rules, rel) ==
  IF rel = <<>> THEN FALSE
  ELSE OutsideRoot(rel) \/ Ignores(loadGitignore(GitignoreLines), rel)

\* Faulty variant of IgnoredPredicate without the test of lines 676-678: the
\* empty path reaches ignoreFilter.ignores, which rejects an empty path by
\* throwing, and the catch at 692-695 answers true.
IgnoredPredicateAskingRoot(rules, rel) ==
  IF OutsideRoot(rel) THEN [ignored |-> TRUE, asked |-> <<>>]
  ELSE IF rel = <<>> THEN [ignored |-> TRUE, asked |-> << rel >>]
  ELSE [ignored |-> Ignores(rules, rel), asked |-> << rel >>]

\* the ignored predicate handed to chokidar.watch (663-700): its verdict on
\* the root-relative path rel, and the paths it handed to ignoreFilter.ignores
IgnoredPredicate(rules, rel) ==
  IF rel = <<>> THEN [ignored |-> FALSE, asked |-> <<>>]
  ELSE IF OutsideRoot(rel) THEN [ignored |-> TRUE, asked |-> <<>>]
  ELSE [ignored |-> Ignores(rules, rel), asked |-> << rel >>]

\* the verdict of the ignored predicate (698-699)
WatcherIgnored(rules, rel) == IgnoredPredicate(rules, rel).ignored

\* ------------------------------------------------------ messages sent out
\* window.webContents.send / event.sender.send of one file-processing-status
Status(h, status) ==
  [chan |-> "file-processing-status", status |-> status, from |-> h]

\* the progress message of the directory loop (465-468)
DirProgress(h) ==
  [chan |-> "file-processing-status", status |-> "processing", from |-> h,
   phase |-> "directories"]

\* the progress message after a batch (565-568)
FileProgress(h, processed, total) ==
  [chan |-> "file-processing-status", status |-> "processing", from |-> h,
   phase |-> "files", processed |-> processed, total |-> total]

\* ------------------------------------------------- the walk as a machine
\* One frame per active call of readFilesRecursively.  phase is the place the
\* call is at: "enter" (line 424), "readdir" (awaiting line 436), "dirs" (head
\* of the loop at 443), "subdir" (awaiting the recursive call at 460), "files"
\* (head of the loop at 472), "chunk" (awaiting Promise.all at 559).
NewFrame(dir) ==
  [dir |-> dir, phase |-> "enter", dirs |-> <<>>, files |-> <<>>, di |-> 1,
   ci |-> 1, results |-> <<>>, processedFiles |-> 0, tasks |-> <<>>]

\* a walk of invocation h: its frames, the messages it sent in the current
\* turn, and its return value once the outermost call has returned
NewWalk(h, dir) ==
  [h |-> h, stack |-> <<NewFrame(dir)>>, out |-> <<>>, ret |-> <<>>,
   returned |-> FALSE]

Top(w) == w.stack[Len(w.stack)]
SetTop(w, f) == [w EXCEPT !.stack[Len(w.stack)] = f]

Names(dirents, kind) ==
  LET sel == SelectSeq(dirents, LAMBDA d : d.kind = kind)
  IN  [i \in 1..Len(sel) |-> sel[i].name]

Min(a, b) == IF a < b THEN a ELSE b

\* Faulty variant of StartTask without the path-scope test of line 487.
StartTaskAnyScope(rel, flag, rules) ==
  IF ~flag THEN [st |-> "done", val |-> Null]
  ELSE IF IsAppBundle(rel) \/ rel = AppPath
       THEN [st |-> "done", val |-> Null]
  ELSE IF Ignores(rules, rel) THEN [st |-> "done", val |-> Null]
  ELSE [st |-> "stat", val |-> Null]

\* Faulty variant of StartTask that never consults the ruleset.
StartTaskUnfiltered(rel, flag, rules) ==
  IF ~flag THEN [st |-> "done", val |-> Null]
  ELSE IF IsAppBundle(rel) \/ rel = AppPath \/ OutsideRoot(rel)
       THEN [st |-> "done", val |-> Null]
  ELSE [st |-> "stat", val |-> Null]

\* the synchronous head of one per-file task (477-498): resolved to null, or
\* suspended in stat
StartTask(rel, flag, rules) ==
  IF ~flag THEN [st |-> "done", val |-> Null]
  ELSE IF IsAppBundle(rel) \/ rel = AppPath \/ OutsideRoot(rel)
       THEN [st |-> "done", val |-> Null]
  ELSE IF Ignores(rules, rel) THEN [st |-> "done", val |-> Null]
  ELSE [st |-> "stat", val |-> Null]

\* Faulty variant of TaskAfterStat that tests the extension before the size.
TaskAfterStatBinaryFirst(name, rel, outcome, flag) ==
  IF outcome # "ok" THEN [st |-> "done", val |-> ScanError(name, rel, outcome)]
  ELSE IF ~flag THEN [st |-> "done", val |-> Null]
  ELSE IF isBinaryFile(name)
       THEN [st |-> "done", val |-> ScanBinary(name, rel, FileSize(rel))]
  ELSE IF FileSize(rel) > MAX_FILE_SIZE
       THEN [st |-> "done", val |-> ScanTooLarge(name, rel, FileSize(rel))]
  ELSE [st |-> "read", val |-> Null]

\* Faulty variant of TaskAfterStat in which a failed stat drops the file.
TaskAfterStatDropping(name, rel, outcome, flag) ==
  IF outcome # "ok" THEN [st |-> "done", val |-> Null]
  ELSE IF ~flag THEN [st |-> "done", val |-> Null]
  ELSE IF FileSize(rel) > MAX_FILE_SIZE
       THEN [st |-> "done", val |-> ScanTooLarge(name, rel, FileSize(rel))]
  ELSE IF isBinaryFile(name)
       THEN [st |-> "done", val |-> ScanBinary(name, rel, FileSize(rel))]
  ELSE [st |-> "read", val |-> Null]

\* the task after its stat settled (498-529); outcome is "ok" or an error code
TaskAfterStat(name, rel, outcome, flag) ==
  IF outcome # "ok" THEN [st |-> "done", val |-> ScanError(name, rel, outcome)]
  ELSE IF ~flag THEN [st |-> "done", val |-> Null]
  ELSE IF FileSize(rel) > MAX_FILE_SIZE
       THEN [st |-> "done", val |-> ScanTooLarge(name, rel, FileSize(rel))]
  ELSE IF isBinaryFile(name)
       THEN [st |-> "done", val |-> ScanBinary(name, rel, FileSize(rel))]
  ELSE [st |-> "read", val |-> Null]

\* the task after its readFile settled (529-556)
TaskAfterRead(name, rel, outcome, flag) ==
  IF outcome # "ok" THEN [st |-> "done", val |-> ScanError(name, rel, outcome)]
  ELSE IF ~flag THEN [st |-> "done", val |-> Null]
  ELSE [st |-> "done", val |-> ScanNormal(name, rel, FileSize(rel), FileContent(rel))]

AllDone(tasks) == \A i \in 1..Len(tasks) : tasks[i].st = "done"

\* chunkResults.filter(result => result !== null)
NonNull(tasks) ==
  LET kept == SelectSeq(tasks, LAMBDA t : t.val # Null)
  IN  [i \in 1..Len(kept) |-> kept[i].val]

\* line 461: the recursive call returned sub into the frame p
AfterSubdir(p, sub, flag) ==
  IF ~flag THEN [ret |-> TRUE, frame |-> p]
  ELSE [ret |-> FALSE,
        frame |-> [p EXCEPT !.phase = "dirs", !.results = @ \o sub, !.di = @ + 1]]

\* Faulty variant of AfterChunk that counts the records instead of the files.
AfterChunkCountingRecords(f, flag) ==
  IF ~flag THEN [ret |-> TRUE, frame |-> f]
  ELSE [ret |-> FALSE,
        frame |-> [f EXCEPT !.phase = "files",
                            !.results = @ \o NonNull(f.tasks),
                            !.processedFiles = @ + Len(NonNull(f.tasks)),
                            !.ci = @ + CHUNK_SIZE,
                            !.tasks = <<>>]]

\* Faulty variant of AfterChunk that puts a batch in front of the list.
AfterChunkPrepending(f, flag) ==
  IF ~flag THEN [ret |-> TRUE, frame |-> f]
  ELSE [ret |-> FALSE,
        frame |-> [f EXCEPT !.phase = "files",
                            !.results = NonNull(f.tasks) \o @,
                            !.processedFiles = @ + Len(f.tasks),
                            !.ci = @ + CHUNK_SIZE,
                            !.tasks = <<>>]]

\* Faulty variant of AfterChunk without the check of line 560.
AfterChunkMerging(f, flag) ==
  [ret |-> FALSE,
   frame |-> [f EXCEPT !.phase = "files",
                       !.results = @ \o NonNull(f.tasks),
                       !.processedFiles = @ + Len(f.tasks),
                       !.ci = @ + CHUNK_SIZE,
                       !.tasks = <<>>]]

\* lines 559-563: Promise.all of the chunk resolved in the frame f
AfterChunk(f, flag) ==
  IF ~flag THEN [ret |-> TRUE, frame |-> f]
  ELSE [ret |-> FALSE,
        frame |-> [f EXCEPT !.phase = "files",
                            !.results = @ \o NonNull(f.tasks),
                            !.processedFiles = @ + Len(f.tasks),
                            !.ci = @ + CHUNK_SIZE,
                            !.tasks = <<>>]]

RECURSIVE Run(_, _, _), Return(_, _, _, _)

\* Runs the walk from its top frame up to the next suspension, or to the
\* return of the outermost call.  flag is isLoadingDirectory, which no step
\* of the walk writes.
Run(w, flag, rules) ==
  IF w.returned \/ w.stack = <<>> THEN w
  ELSE LET f == Top(w) IN
    CASE f.phase = "enter" ->
           IF ~flag THEN Return(w, <<>>, flag, rules)
           ELSE SetTop(w, [f EXCEPT !.phase = "readdir"])
      [] f.phase = "dirs" ->
           IF f.di > Len(f.dirs)
           THEN Run(SetTop(w, [f EXCEPT !.phase = "files", !.ci = 1]), flag, rules)
           ELSE IF ~flag THEN Return(w, f.results, flag, rules)
           ELSE LET full == Append(f.dir, f.dirs[f.di]) IN
             IF IsAppBundle(full) \/ full = AppPath \/ OutsideRoot(full)
             THEN Run(SetTop(w, [f EXCEPT !.di = @ + 1]), flag, rules)
             ELSE IF ~Ignores(rules, full)
             THEN Run([w EXCEPT !.stack =
                         Append(SetTop(w, [f EXCEPT !.phase = "subdir"]).stack,
                                NewFrame(full))], flag, rules)
             ELSE Run([SetTop(w, [f EXCEPT !.di = @ + 1])
                         EXCEPT !.out = Append(@, DirProgress(w.h))], flag, rules)
      [] f.phase = "files" ->
           IF f.ci > Len(f.files) THEN Return(w, f.results, flag, rules)
           ELSE IF ~flag THEN Return(w, f.results, flag, rules)
           ELSE LET last == Min(f.ci + CHUNK_SIZE - 1, Len(f.files))
                    tasks == [i \in 1..(last - f.ci + 1) |->
                                StartTask(Append(f.dir, f.files[f.ci + i - 1]),
                                          flag, rules)]
                IN  Run(SetTop(w, [f EXCEPT !.phase = "chunk", !.tasks = tasks]),
                        flag, rules)
      [] f.phase = "chunk" ->
           IF ~AllDone(f.tasks) THEN w
           ELSE LET a == AfterChunk(f, flag) IN
             IF a.ret THEN Return(w, a.frame.results, flag, rules)
             ELSE Run([SetTop(w, a.frame) EXCEPT !.out =
                         Append(@, FileProgress(w.h, a.frame.processedFiles,
                                                Len(f.files)))], flag, rules)
      [] OTHER -> w

\* The top call returns v: to the handler when it is the outermost call, else
\* to its caller's line 461.
Return(w, v, flag, rules) ==
  LET rest == SubSeq(w.stack, 1, Len(w.stack) - 1) IN
  IF rest = <<>> THEN [w EXCEPT !.stack = <<>>, !.ret = v, !.returned = TRUE]
  ELSE LET up == [w EXCEPT !.stack = rest]
           a == AfterSubdir(rest[Len(rest)], v, flag)
       IN  IF a.ret THEN Return(up, a.frame.results, flag, rules)
           ELSE Run([SetTop(up, a.frame) EXCEPT !.out = Append(@, DirProgress(w.h))],
                    flag, rules)

\* console.error of the catch at 570-571
ReaddirError(h, dir, code) ==
  [chan |-> "console", text |-> "Error reading directory", from |-> h,
   dir |-> dir, code |-> code]

\* Faulty variant of AfterReaddir in which a failed readdir ends the whole
\* walk with nothing.
AfterReaddirAborting(w, outcome, flag, rules) ==
  LET f == Top(w) IN
  IF outcome # "ok"
  THEN [w EXCEPT !.out = Append(@, ReaddirError(w.h, f.dir, outcome)),
                 !.stack = <<>>, !.ret = <<>>, !.returned = TRUE]
  ELSE IF ~flag THEN Return(w, f.results, flag, rules)
  ELSE Run(SetTop(w, [f EXCEPT !.phase = "dirs", !.di = 1,
                               !.dirs = Names(Dirents(f.dir), "dir"),
                               !.files = Names(Dirents(f.dir), "file")]),
           flag, rules)

\* readdir of the top frame settled (436-441, catch at 570-578: every error
\* is logged and the call returns its results)
AfterReaddir(w, outcome, flag, rules) ==
  LET f == Top(w) IN
  IF outcome # "ok"
  THEN Return([w EXCEPT !.out = Append(@, ReaddirError(w.h, f.dir, outcome))],
              f.results, flag, rules)
  ELSE IF ~flag THEN Return(w, f.results, flag, rules)
  ELSE Run(SetTop(w, [f EXCEPT !.phase = "dirs", !.di = 1,
                               !.dirs = Names(Dirents(f.dir), "dir"),
                               !.files = Names(Dirents(f.dir), "file")]),
           flag, rules)

\* ------------------------------------------------ the handler's tail end
\* shouldExcludeByDefault (776-825) on a path relative to the root
shouldExcludeByDefault(rel) ==
  OutsideRoot(rel) \/ Ignores(MapRules(excludedFiles), rel)

\* one element of serializedFiles (642-655); a key the walk's object lacks
\* stays undefined
Serialize(file) ==
  LET ext == ToLowerCase(ExtName(file.name))
      excl == shouldExcludeByDefault(file.relativePath)
  IN  IF "content" \notin DOMAIN file
      THEN [relativePath |-> file.relativePath, name |-> file.name,
            size |-> file.size, extension |-> ext, excluded |-> excl,
            tokenCount |-> file.tokenCount, isBinary |-> file.isBinary,
            isSkipped |-> file.isSkipped, error |-> file.error]
      ELSE IF "error" \in DOMAIN file
      THEN [relativePath |-> file.relativePath, name |-> file.name,
            size |-> file.size, extension |-> ext, excluded |-> excl,
            content |-> file.content,
            tokenCount |-> file.tokenCount, isBinary |-> file.isBinary,
            isSkipped |-> file.isSkipped, error |-> file.error]
      ELSE [relativePath |-> file.relativePath, name |-> file.name,
            size |-> file.size, extension |-> ext, excluded |-> excl,
            content |-> file.content,
            tokenCount |-> file.tokenCount, isBinary |-> file.isBinary,
            isSkipped |-> file.isSkipped]

\* ------------------------------------------------------------------- state
VARIABLES
  isLoadingDirectory,  \* main.js 7
  loadingTimeoutId,    \* main.js 8: 0 is null, else the id of the timer
  currentWatcher,      \* main.js 9: 0 is null, else the id of the watcher
  timers,              \* timers set and neither fired nor cleared
  watchers,            \* per watcher: its state and who awaits its close()
  handlers,            \* per request-file-list invocation: where it stands
  inflight,            \* add/change listeners awaiting processSingleFile
  requested,           \* how many request-file-list messages were received
  notified,            \* how many notifications chokidar has raised
  outbox               \* what the last event-loop turn sent and logged, in order

vars == << ignoreLoaded, chokidarLoaded, encoderReady, isLoadingDirectory,
           loadingTimeoutId, currentWatcher, timers, watchers, handlers,
           inflight, requested, notified, outbox, probe >>

\* a timer and a watcher carry the id of the handler invocation that made them
NoWalk == [h |-> 0, stack |-> <<>>, out |-> <<>>, ret |-> <<>>, returned |-> FALSE]

\* pc: "none" before the request, "busyClose" awaiting line 586, "preClose"
\* awaiting line 604, "walk" awaiting line 621, "done" after the handler ended.
\* cancelled: a cancel was accepted while the invocation was in its walk.
\* outcome: how the handler ended.  partial: what the walk had returned when
\* the handler returned early at line 625.
IdleHandler ==
  [pc |-> "none", walk |-> NoWalk, rules |-> <<>>, cancelled |-> FALSE,
   outcome |-> "none", partial |-> <<>>]

NoWatcher == [st |-> "none", waiters |-> <<>>]

\* the mutable state at the start of a turn, as one value, so that the
\* continuations that run in one turn compose
State ==
  [flag |-> isLoadingDirectory, tid |-> loadingTimeoutId, cw |-> currentWatcher,
   timers |-> timers, ws |-> watchers, hs |-> handlers, out |-> <<>>]

Commit(t) ==
  \E s \in {t} :
  /\ isLoadingDirectory' = s.flag
  /\ loadingTimeoutId' = s.tid
  /\ currentWatcher' = s.cw
  /\ timers' = s.timers
  /\ watchers' = s.ws
  /\ handlers' = s.hs
  /\ outbox' = s.out

Send(s, msg) == [s EXCEPT !.out = Append(@, msg)]

\* if (loadingTimeoutId) { clearTimeout(loadingTimeoutId); loadingTimeoutId = null; }
ClearLoadingTimeout(s) ==
  IF s.tid # 0 THEN [s EXCEPT !.timers = @ \ {s.tid}, !.tid = 0] ELSE s

\* Faulty variant of cancelDirectoryLoading without the test of line 842.
cancelDirectoryLoadingUnguarded(s) ==
  LET c == ClearLoadingTimeout([s EXCEPT !.flag = FALSE])
      d == [c EXCEPT !.hs = [h \in Handlers |->
                               IF s.hs[h].pc = "walk"
                               THEN [s.hs[h] EXCEPT !.cancelled = TRUE]
                               ELSE s.hs[h]]]
  IN  Send(d, Status(0, "cancelled"))

\* Faulty variant of cancelDirectoryLoading that leaves the timer pending.
cancelDirectoryLoadingKeepingTimer(s) ==
  IF ~s.flag THEN s
  ELSE LET d == [s EXCEPT !.flag = FALSE,
                          !.hs = [h \in Handlers |->
                                    IF s.hs[h].pc = "walk"
                                    THEN [s.hs[h] EXCEPT !.cancelled = TRUE]
                                    ELSE s.hs[h]]]
       IN  Send(d, Status(0, "cancelled"))

\* cancelDirectoryLoading (841-863).  The scans a cancel is accepted for are
\* the invocations that are inside their walk when it is accepted.
cancelDirectoryLoading(s) ==
  IF ~s.flag THEN s
  ELSE LET c == ClearLoadingTimeout([s EXCEPT !.flag = FALSE])
           d == [c EXCEPT !.hs = [h \in Handlers |->
                                    IF s.hs[h].pc = "walk"
                                    THEN [s.hs[h] EXCEPT !.cancelled = TRUE]
                                    ELSE s.hs[h]]]
       IN  Send(d, Status(0, "cancelled"))

\* setupDirectoryLoadingTimeout (872-884) called by invocation h
setupDirectoryLoadingTimeout(s, h) ==
  [s EXCEPT !.timers = (IF s.tid # 0 THEN @ \ {s.tid} ELSE @) \cup {h},
            !.tid = h]

\* Faulty variant of TimeoutCallback that logs and cancels nothing.
TimeoutCallbackLogOnly(s, t) ==
  Send(s, [chan |-> "console", text |-> "timed out", from |-> t])

\* the callback of the safety timer t (879-883)
TimeoutCallback(s, t) ==
  cancelDirectoryLoading(Send(s, [chan |-> "console", text |-> "timed out",
                                  from |-> t]))

\* the finally block (753-760) ends the invocation
Finally(s, h, outcome) ==
  LET c == ClearLoadingTimeout([s EXCEPT !.flag = FALSE])
  IN  [c EXCEPT !.hs[h].pc = "done", !.hs[h].walk = NoWalk,
                !.hs[h].outcome = outcome]

\* the catch block (740-752)
Catch(s, h) ==
  Send(ClearLoadingTimeout([s EXCEPT !.flag = FALSE]), Status(h, "error"))

\* lines 659-739: arm the watcher
ArmWatcher(s, h) ==
  IF chokidarLoaded
  THEN [s EXCEPT !.cw = h, !.ws[h] = [st |-> "open", waiters |-> <<>>]]
  ELSE s

\* lines 628-657: the completion branch
Complete(s, h, files) ==
  LET c == ClearLoadingTimeout(s)
      d == Send([c EXCEPT !.flag = FALSE], Status(h, "complete"))
  IN  Send(d, [chan |-> "file-list-data", from |-> h,
               files |-> [i \in 1..Len(files) |-> Serialize(files[i])]])

\* Faulty variant of AfterWalk that hands the partial list of a walk that
\* unwound on a cleared flag to the renderer.
AfterWalkDelivering(s, h, files) ==
  IF ~s.flag
  THEN Finally(Send([s EXCEPT !.hs[h].partial = files],
                    [chan |-> "file-list-data", from |-> h,
                     files |-> [i \in 1..Len(files) |-> Serialize(files[i])]]),
               h, "dropped")
  ELSE Finally(ArmWatcher(Complete(s, h, files), h), h, "complete")

\* Faulty variant of AfterWalk whose completion leaves the loading flag set.
AfterWalkLeavingFlag(s, h, files) ==
  IF ~s.flag THEN Finally([s EXCEPT !.hs[h].partial = files], h, "dropped")
  ELSE [Finally(ArmWatcher(Complete(s, h, files), h), h, "complete")
          EXCEPT !.flag = TRUE]

\* lines 623-760, run when the awaited walk of invocation h returned files
AfterWalk(s, h, files) ==
  IF ~s.flag THEN Finally([s EXCEPT !.hs[h].partial = files], h, "dropped")
  ELSE Finally(ArmWatcher(Complete(s, h, files), h), h, "complete")

\* the walk of invocation h moved to w: suspended again, or returned into
\* the handler
Settle(s, h, w) ==
  LET t == [s EXCEPT !.out = @ \o w.out]
  IN  IF w.returned THEN AfterWalk(t, h, w.ret)
      ELSE [t EXCEPT !.hs[h].walk = [w EXCEPT !.out = <<>>]]

\* lines 607-621: the scan starts, up to the first readdir
BeginScan(s, h) ==
  LET a == setupDirectoryLoadingTimeout([s EXCEPT !.flag = TRUE], h)
      b == Send(a, Status(h, "processing"))
  IN  IF ~ignoreLoaded THEN Finally(Catch(b, h), h, "error")
      ELSE LET rules == loadGitignore(GitignoreLines)
               c == [b EXCEPT !.hs[h].pc = "walk", !.hs[h].rules = rules]
           IN  Settle(c, h, Run(NewWalk(h, <<>>), c.flag, rules))

\* Faulty variant of AwaitClose whose promise never resumes the handler.
AwaitCloseForgotten(s, h, pc) ==
  [s EXCEPT !.ws[s.cw].st = "closing", !.hs[h].pc = pc]

\* await currentWatcher.close() at 586 or 604: chokidar's close() marks the
\* watcher closed, drops its listeners and returns one promise per watcher
AwaitClose(s, h, pc) ==
  [s EXCEPT !.ws[s.cw].st = "closing",
            !.ws[s.cw].waiters = Append(@, h),
            !.hs[h].pc = pc]

\* Faulty variant of RejectBusy that also resets the loading state.
RejectBusyResetting(s, h) ==
  [ClearLoadingTimeout(Send([s EXCEPT !.flag = FALSE], Status(h, "busy")))
     EXCEPT !.hs[h].pc = "done", !.hs[h].outcome = "busy"]

\* lines 589-598
RejectBusy(s, h) ==
  [Send(s, Status(h, "busy")) EXCEPT !.hs[h].pc = "done", !.hs[h].outcome = "busy"]

\* Faulty variant of OnRequest without the guard of lines 584-599.
OnRequestUnguarded(s, h) ==
  IF s.cw # 0 THEN AwaitClose(s, h, "preClose") ELSE BeginScan(s, h)

\* Faulty variant of OnRequest that does not close the previous watcher
\* (lines 603-606 left out).
OnRequestNoClose(s, h) ==
  IF s.flag THEN RejectBusy(s, h) ELSE BeginScan(s, h)

\* the request-file-list handler from its entry to its first suspension
OnRequest(s, h) ==
  IF s.flag
  THEN IF s.cw # 0 THEN AwaitClose(s, h, "busyClose") ELSE RejectBusy(s, h)
  ELSE IF s.cw # 0 THEN AwaitClose(s, h, "preClose") ELSE BeginScan(s, h)

\* the continuation of invocation h after its awaited close() resolved
AfterClose(s, h) ==
  IF s.hs[h].pc = "busyClose" THEN RejectBusy([s EXCEPT !.cw = 0], h)
  ELSE BeginScan([s EXCEPT !.cw = 0], h)

\* the continuations of one resolved promise run in the order they awaited
RECURSIVE ResumeAll(_, _)
ResumeAll(s, hseq) ==
  IF hseq = <<>> THEN s ELSE ResumeAll(AfterClose(s, Head(hseq)), Tail(hseq))

\* --------------------------------------------------------------- actions
\* no call of a pure function is being followed
NoProbe == [op |-> "none"]

Init ==
  /\ ignoreLoaded \in BOOLEAN
  /\ chokidarLoaded \in BOOLEAN
  /\ encoderReady = TRUE
  /\ isLoadingDirectory = FALSE
  /\ loadingTimeoutId = 0
  /\ currentWatcher = 0
  /\ timers = {}
  /\ watchers = [w \in Handlers |-> NoWatcher]
  /\ handlers = [h \in Handlers |-> IdleHandler]
  /\ inflight = <<>>
  /\ requested = 0
  /\ notified = 0
  /\ outbox = <<>>
  /\ probe = NoProbe

Caps == << ignoreLoaded, chokidarLoaded, encoderReady >>
Engine == << isLoadingDirectory, loadingTimeoutId, currentWatcher, timers,
            watchers, handlers, requested >>

\* the renderer sends request-file-list
Request ==
  /\ requested < MaxRequests
  /\ requested' = requested + 1
  /\ Commit(OnRequest(State, requested + 1))
  /\ UNCHANGED << Caps, probe, inflight, notified >>

\* the renderer sends cancel-directory-loading, or Escape is pressed
Cancel ==
  /\ Commit(cancelDirectoryLoading(State))
  /\ UNCHANGED << Caps, probe, inflight, notified, requested >>

\* the safety timer fires
TimerFire ==
  \E t \in timers :
    /\ Commit(TimeoutCallback([State EXCEPT !.timers = @ \ {t}], t))
    /\ UNCHANGED << Caps, probe, inflight, notified, requested >>

\* fs.promises.readdir of the walk's top frame settles
ReaddirDone ==
  \E h \in Handlers, outcome \in {"ok"} \cup ErrCodes :
    /\ handlers[h].pc = "walk"
    /\ Top(handlers[h].walk).phase = "readdir"
    /\ outcome \in IoOutcomes(Top(handlers[h].walk).dir)
    /\ Commit(Settle(State, h, AfterReaddir(handlers[h].walk, outcome,
                                           isLoadingDirectory, handlers[h].rules)))
    /\ UNCHANGED << Caps, probe, inflight, notified, requested >>

\* the walk of h with task i of the pending chunk replaced by t
WithTask(h, i, t) ==
  LET w == handlers[h].walk
  IN  SetTop(w, [Top(w) EXCEPT !.tasks[i] = t])

TaskName(f, i) == f.files[f.ci + i - 1]
TaskPath(f, i) == Append(f.dir, TaskName(f, i))

\* fs.promises.stat of one task of the pending chunk settles
StatDone ==
  \E h \in Handlers, outcome \in {"ok"} \cup ErrCodes :
    /\ handlers[h].pc = "walk"
    /\ Top(handlers[h].walk).phase = "chunk"
    /\ \E i \in 1..Len(Top(handlers[h].walk).tasks) :
         LET f == Top(handlers[h].walk) IN
         /\ f.tasks[i].st = "stat"
         /\ outcome \in IoOutcomes(TaskPath(f, i))
         /\ Commit(Settle(State, h,
              Run(WithTask(h, i, TaskAfterStat(TaskName(f, i), TaskPath(f, i),
                                               outcome, isLoadingDirectory)),
                  isLoadingDirectory, handlers[h].rules)))
    /\ UNCHANGED << Caps, probe, inflight, notified, requested >>

\* fs.promises.readFile of one task of the pending chunk settles
ReadDone ==
  \E h \in Handlers, outcome \in {"ok"} \cup ErrCodes :
    /\ handlers[h].pc = "walk"
    /\ Top(handlers[h].walk).phase = "chunk"
    /\ \E i \in 1..Len(Top(handlers[h].walk).tasks) :
         LET f == Top(handlers[h].walk) IN
         /\ f.tasks[i].st = "read"
         /\ outcome \in IoOutcomes(TaskPath(f, i))
         /\ Commit(Settle(State, h,
              Run(WithTask(h, i, TaskAfterRead(TaskName(f, i), TaskPath(f, i),
                                               outcome, isLoadingDirectory)),
                  isLoadingDirectory, handlers[h].rules)))
    /\ UNCHANGED << Caps, probe, inflight, notified, requested >>

\* the promise of a watcher's close() resolves
WatcherClosed ==
  \E w \in Handlers :
    /\ watchers[w].st = "closing"
    /\ Commit(ResumeAll([State EXCEPT !.ws[w] = [st |-> "closed", waiters |-> <<>>]],
                        watchers[w].waiters))
    /\ UNCHANGED << Caps, probe, inflight, notified, requested >>

\* the paths chokidar may raise a notification for
NotifyPaths ==
  IF ScannedFolder = "dotted"
  THEN { <<"a.txt">>, <<"..rc">>, <<"..cache", "m.js">> }
  ELSE { <<"a.txt">>, <<"b.txt">>, <<"sub", "big.bin">>, <<"sub", "c.BIN">> }

\* how many notifications chokidar raises in a run: one more in the runs
\* that follow the order of the events of one path
NotificationCap ==
  IF probe.op = "order" THEN MaxNotifications + 1 ELSE MaxNotifications

RemoveAt(q, i) == SubSeq(q, 1, i - 1) \o SubSeq(q, i + 1, Len(q))

EventName(kind) == IF kind = "add" THEN "file-added" ELSE "file-updated"

\* Faulty variant of Deliver that keeps skipped and binary records back.
DeliverReadable(e, r) ==
  IF r = Null \/ r.isSkipped \/ r.isBinary THEN <<>>
  ELSE << [chan |-> EventName(e.kind), from |-> e.w, file |-> r] >>

\* if (fileData) event.sender.send(...) of the add and change listeners
Deliver(e, r) ==
  IF r = Null THEN <<>>
  ELSE << [chan |-> EventName(e.kind), from |-> e.w, file |-> r] >>

\* chokidar emits add or change for a path it does not ignore: the listener
\* (711-727) runs processSingleFile up to its first await
NotifyAddChange ==
  \E w \in Handlers, kind \in {"add", "change"}, p \in NotifyPaths :
    /\ notified < NotificationCap
    /\ watchers[w].st = "open"
    /\ ~WatcherIgnored(handlers[w].rules, p)
    /\ notified' = notified + 1
    /\ inflight' = IF SingleStart(p, handlers[w].rules) = "stat"
                   THEN Append(inflight, [w |-> w, kind |-> kind, path |-> p, pc |-> "stat"])
                   ELSE inflight
    /\ outbox' = <<>>
    /\ UNCHANGED << Caps, probe, Engine >>

\* chokidar emits unlink: the listener (728-732) sends the path at once
NotifyUnlink ==
  \E w \in Handlers, p \in NotifyPaths :
    /\ notified < NotificationCap
    /\ watchers[w].st = "open"
    /\ ~WatcherIgnored(handlers[w].rules, p)
    /\ notified' = notified + 1
    /\ outbox' = << [chan |-> "file-removed", from |-> w, path |-> p] >>
    /\ UNCHANGED << Caps, probe, Engine, inflight >>

\* stat of an in-flight processSingleFile settles
SingleStatDone ==
  \E i \in 1..Len(inflight), outcome \in {"ok"} \cup ErrCodes :
    LET e == inflight[i]
        r == SingleAfterStat(e.path, outcome)
    IN  /\ e.pc = "stat"
        /\ outcome \in IoOutcomes(e.path)
        /\ IF r = Null
           THEN /\ inflight' = [inflight EXCEPT ![i].pc = "read"]
                /\ outbox' = <<>>
           ELSE /\ inflight' = RemoveAt(inflight, i)
                /\ outbox' = Deliver(e, r)
        /\ UNCHANGED << Caps, probe, Engine, notified >>

\* readFile of an in-flight processSingleFile settles
SingleReadDone ==
  \E i \in 1..Len(inflight), outcome \in {"ok"} \cup ErrCodes :
    LET e == inflight[i]
    IN  /\ e.pc = "read"
        /\ outcome \in IoOutcomes(e.path)
        /\ inflight' = RemoveAt(inflight, i)
        /\ outbox' = Deliver(e, SingleAfterRead(e.path, outcome))
        /\ UNCHANGED << Caps, probe, Engine, notified >>

\* the engine together with the filesystem notifications of its watchers
Next ==
  \/ Request
  \/ Cancel
  \/ TimerFire
  \/ ReaddirDone
  \/ StatDone
  \/ ReadDone
  \/ WatcherClosed
  \/ NotifyAddChange
  \/ NotifyUnlink
  \/ SingleStatDone
  \/ SingleReadDone

Spec == Init /\ [][Next]_vars

\* the engine at rest, as after start-up
IdleEngine ==
  /\ isLoadingDirectory = FALSE
  /\ loadingTimeoutId = 0
  /\ currentWatcher = 0
  /\ timers = {}
  /\ watchers = [w \in Handlers |-> NoWatcher]
  /\ handlers = [h \in Handlers |-> IdleHandler]
  /\ inflight = <<>>
  /\ requested = 0
  /\ notified = 0
  /\ outbox = <<>>

\* the scan engine alone: requests, cancels, the timer and the I/O of the
\* walks, with no filesystem notification raised
ScanNext ==
  \/ Request
  \/ Cancel
  \/ TimerFire
  \/ ReaddirDone
  \/ StatDone
  \/ ReadDone
  \/ WatcherClosed

ScanSpec == Init /\ [][ScanNext]_vars

\* the scan engine on the wide folder, whose files fill more than one batch
WideInit ==
  /\ IdleEngine
  /\ ignoreLoaded \in BOOLEAN
  /\ chokidarLoaded \in BOOLEAN
  /\ encoderReady = TRUE
  /\ probe = [op |-> "scan", folder |-> "wide", edited |-> FALSE]

WideSpec == WideInit /\ [][ScanNext]_vars

\* when each of the I/O completions is enabled
ReaddirPending ==
  \E h \in Handlers :
    handlers[h].pc = "walk" /\ Top(handlers[h].walk).phase = "readdir"

TaskPending(st) ==
  \E h \in Handlers :
    /\ handlers[h].pc = "walk"
    /\ Top(handlers[h].walk).phase = "chunk"
    /\ \E i \in 1..Len(Top(handlers[h].walk).tasks) :
         Top(handlers[h].walk).tasks[i].st = st

\* The event loop runs every completion callback that is ready: each pending
\* readdir, stat, readFile and close() eventually settles.  This is weak
\* fairness of the four completions.  For the three completions of the walk
\* WF_vars(A) is written out as []<>~ENABLED <<A>>_vars \/ []<><<A>>_vars,
\* with the enabling condition of each given above (each of them changes the
\* handler it resumes, so none is a stuttering step).
FairScanSpec ==
  /\ ScanSpec
  /\ WF_vars(WatcherClosed)
  /\ ([]<>~ReaddirPending \/ []<><<ReaddirDone>>_vars)
  /\ ([]<>~TaskPending("stat") \/ []<><<StatDone>>_vars)
  /\ ([]<>~TaskPending("read") \/ []<><<ReadDone>>_vars)

\* the user rewrites the root's .gitignore: b.txt is no longer listed in it,
\* a.txt now is
EditGitignore ==
  /\ probe.op = "scan"
  /\ ~probe.edited
  /\ probe' = [probe EXCEPT !.edited = TRUE]
  /\ outbox' = <<>>
  /\ UNCHANGED << Caps, Engine, inflight, notified >>

EditInit ==
  /\ IdleEngine
  /\ ignoreLoaded \in BOOLEAN
  /\ chokidarLoaded \in BOOLEAN
  /\ encoderReady = TRUE
  /\ probe = [op |-> "scan", folder |-> "root", edited |-> FALSE]

\* the full engine on a folder whose .gitignore is rewritten at some point
EditSpec == EditInit /\ [][Next \/ EditGitignore]_vars

\* the error message of line 734
WatcherErrorLog(w) == [chan |-> "console", text |-> "CHOKIDAR ERROR", from |-> w]

\* Faulty variant of OnWatcherError that gives the watcher up.
OnWatcherErrorClosing(s, w) ==
  [Send(s, WatcherErrorLog(w)) EXCEPT !.ws[w].st = "closed", !.cw = 0]

\* the error listener of watcher w (733-735)
OnWatcherError(s, w) == Send(s, WatcherErrorLog(w))

\* the closed listener of the window (191-196): the promise of close() is
\* awaited by no handler
OnWindowClosed(s) ==
  IF s.cw # 0 THEN [s EXCEPT !.ws[s.cw].st = "closing"] ELSE s

\* the watchers that have raised an error, and whether the window was closed
Erred == IF probe.op = "session" THEN probe.erred ELSE {}
WindowWasClosed == probe.op = "session" /\ probe.closed

\* chokidar emits error on an open watcher (once per watcher in a run)
NotifyError ==
  \E w \in Handlers :
    /\ probe.op = "session"
    /\ watchers[w].st = "open"
    /\ w \notin probe.erred
    /\ probe' = [probe EXCEPT !.erred = @ \cup {w}]
    /\ Commit(OnWatcherError(State, w))
    /\ UNCHANGED << Caps, inflight, notified, requested >>

\* the user closes the window
WindowClosed ==
  /\ probe.op = "session"
  /\ ~probe.closed
  /\ probe' = [probe EXCEPT !.closed = TRUE]
  /\ Commit(OnWindowClosed(State))
  /\ UNCHANGED << Caps, inflight, notified, requested >>

SessionInit ==
  /\ IdleEngine
  /\ ignoreLoaded \in BOOLEAN
  /\ chokidarLoaded \in BOOLEAN
  /\ encoderReady = TRUE
  /\ probe = [op |-> "session", closed |-> FALSE, erred |-> {}]

\* the full engine with the errors of its watchers and the closing of the
\* window
SessionSpec == SessionInit /\ [][Next \/ NotifyError \/ WindowClosed]_vars

\* the full engine in a run with room for two notifications
OrderInit ==
  /\ IdleEngine
  /\ ignoreLoaded \in BOOLEAN
  /\ chokidarLoaded \in BOOLEAN
  /\ encoderReady = TRUE
  /\ probe = [op |-> "order"]

OrderSpec == OrderInit /\ [][Next]_vars

\* the full engine on the dotted folder
DottedInit ==
  /\ IdleEngine
  /\ ignoreLoaded \in BOOLEAN
  /\ chokidarLoaded \in BOOLEAN
  /\ encoderReady = TRUE
  /\ probe = [op |-> "scan", folder |-> "dotted", edited |-> FALSE]

DottedSpec == DottedInit /\ [][Next]_vars

\* the full engine where the stat and readFile of every add/change listener
\* eventually settle
FairWatchSpec == Spec /\ WF_vars(SingleStatDone) /\ WF_vars(SingleReadDone)

\* ------------------------------------------- calls of the pure functions
\* the texts of at most n characters; a special-token literal is one element
RECURSIVE TextsUpTo(_)
TextsUpTo(n) ==
  IF n = 0 THEN { <<>> }
  ELSE TextsUpTo(n - 1) \cup
       { Append(t, c) : t \in { u \in TextsUpTo(n - 1) : Len(u) = n - 1 },
                        c \in {"a", Sentinel, OtherSpecial} }

TokenInit ==
  /\ IdleEngine
  /\ ignoreLoaded = TRUE
  /\ chokidarLoaded = TRUE
  /\ encoderReady \in BOOLEAN
  /\ probe \in { [op |-> "countTokens", text |-> t, called |-> FALSE, result |-> 0] :
                   t \in TextsUpTo(MaxTextLen) }

\* one call countTokens(text)
CountTokensCall ==
  /\ probe.op = "countTokens"
  /\ ~probe.called
  /\ probe' = [probe EXCEPT !.called = TRUE, !.result = countTokens(probe.text)]
  /\ UNCHANGED << Caps, Engine, inflight, notified, outbox >>

TokenSpec == TokenInit /\ [][CountTokensCall]_vars

\* the .gitignore texts of at most n pattern lines
PatternLines ==
  { [kind |-> "pattern", neg |-> g, name |-> n] :
      g \in BOOLEAN, n \in {"*", "a.txt", "sub"} }

RECURSIVE LinesUpTo(_)
LinesUpTo(n) ==
  IF n = 0 THEN { <<>> }
  ELSE LinesUpTo(n - 1) \cup
       { Append(t, l) : t \in { u \in LinesUpTo(n - 1) : Len(u) = n - 1 },
                        l \in PatternLines }

\* the paths chokidar asks the predicate about: the watched root itself and
\* what lies below and beside it
AskedPaths == { <<>>, <<"a.txt">>, <<"sub", "c.BIN">>, <<"..rc">> }

IgnoredInit ==
  /\ IdleEngine
  /\ ignoreLoaded = TRUE
  /\ chokidarLoaded = TRUE
  /\ encoderReady = TRUE
  /\ probe \in { [op |-> "ignored", rules |-> loadGitignore(t), path |-> p,
                   called |-> FALSE,
                   result |-> [ignored |-> FALSE, asked |-> <<>>]] :
                   t \in LinesUpTo(MaxRules), p \in AskedPaths }

\* chokidar calls the ignored predicate of a watcher on one path
IgnoredCall ==
  /\ probe.op = "ignored"
  /\ ~probe.called
  /\ probe' = [probe EXCEPT !.called = TRUE,
                             !.result = IgnoredPredicate(probe.rules, probe.path)]
  /\ UNCHANGED << Caps, Engine, inflight, notified, outbox >>

IgnoredSpec == IgnoredInit /\ [][IgnoredCall]_vars

\* ------------------------------------------------ formatContentForCopying
\* Paths are sequences of characters.  The FileData records the formatter is
\* called with:
PathCh == << "/", "r", "/", "c", "h", ".", "t", "s" >>
PathD == << "/", "r", "/", "d", ".", "t", "s" >>
PathO == << "/", "r", "2", "/", "o", ".", "m", "d" >>
FolderR == << "/", "r" >>

FileCh == [path |-> PathCh, name |-> "ch.ts", tokenCount |-> 5, size |-> 10,
           content |-> "C"]
FileD == [path |-> PathD, name |-> "d.ts", tokenCount |-> 5, size |-> 30,
          content |-> "D"]
FileO == [path |-> PathO, name |-> "o.md", tokenCount |-> 1, size |-> 20,
          content |-> "O"]
FileUniverse == { FileCh, FileD, FileO }

\* the lists of distinct files of at most n elements
Distinct(list) == \A i, j \in 1..Len(list) : i # j => list[i] # list[j]

RECURSIVE FileLists(_)
FileLists(n) ==
  IF n = 0 THEN { <<>> }
  ELSE FileLists(n - 1) \cup
       { Append(l, f) : l \in { m \in FileLists(n - 1) : Len(m) = n - 1 },
                        f \in FileUniverse }

\* sortOrder.split("-")
SplitOrder(sortOrder) ==
  CASE sortOrder = "name-asc" -> [key |-> "name", dir |-> "asc"]
    [] sortOrder = "name-desc" -> [key |-> "name", dir |-> "desc"]
    [] sortOrder = "tokens-asc" -> [key |-> "tokens", dir |-> "asc"]
    [] sortOrder = "tokens-desc" -> [key |-> "tokens", dir |-> "desc"]
    [] sortOrder = "size-asc" -> [key |-> "size", dir |-> "asc"]
    [] sortOrder = "size-desc" -> [key |-> "size", dir |-> "desc"]
    [] sortOrder = "date-asc" -> [key |-> "date", dir |-> "asc"]
    [] OTHER -> [key |-> sortOrder, dir |-> "undefined"]

\* String.prototype.localeCompare(other) with no locale argument collates in
\* the default locale of the runtime: in "cs" the digraph ch sorts after h,
\* in "en" it sorts between c and d
CollationRank(locale, name) ==
  CASE name = "ch.ts" -> IF locale = "cs" THEN 3 ELSE 1
    [] name = "d.ts" -> 2
    [] OTHER -> 4

Sign(n) == IF n < 0 THEN 0 - 1 ELSE IF n > 0 THEN 1 ELSE 0

\* the comparator of lines 967-980
Comparator(a, b, sortOrder, locale) ==
  LET o == SplitOrder(sortOrder)
      comparison ==
        IF o.key = "name"
        THEN Sign(CollationRank(locale, a.name) - CollationRank(locale, b.name))
        ELSE IF o.key = "tokens" THEN a.tokenCount - b.tokenCount
        ELSE IF o.key = "size" THEN a.size - b.size
        ELSE 0
  IN  IF o.dir = "asc" THEN comparison ELSE 0 - comparison

\* faulty variant: an element is placed before the elements it ties with
SortByReversingTies(list, sortOrder, locale) ==
  LET RECURSIVE Ins(_)
      Ins(l) ==
        IF l = <<>> THEN <<>>
        ELSE LET init == Ins(SubSeq(l, 1, Len(l) - 1))
                 x == l[Len(l)]
                 after == { i \in 1..Len(init) :
                              Comparator(init[i], x, sortOrder, locale) >= 0 }
                 k == IF after = {} THEN Len(init) + 1
                      ELSE CHOOSE i \in after : \A j \in after : i <= j
             IN  SubSeq(init, 1, k - 1) \o << x >> \o SubSeq(init, k, Len(init))
  IN  Ins(list)

\* Array.prototype.sort: a stable sort by the comparator
RECURSIVE SortBy(_, _, _)
SortBy(list, sortOrder, locale) ==
  IF list = <<>> THEN <<>>
  ELSE LET init == SortBy(SubSeq(list, 1, Len(list) - 1), sortOrder, locale)
           x == list[Len(list)]
           after == { i \in 1..Len(init) :
                        Comparator(init[i], x, sortOrder, locale) > 0 }
           k == IF after = {} THEN Len(init) + 1
                ELSE CHOOSE i \in after : \A j \in after : i <= j
       IN  SubSeq(init, 1, k - 1) \o << x >> \o SubSeq(init, k, Len(init))

\* the Windows separator character, as an element of a path
Backslash == "<backslash>"

\* pathUtils.normalizePath (not part of the listed sources): backslashes
\* become forward slashes
NormalizePath(path) ==
  [i \in 1..Len(path) |-> IF path[i] = Backslash THEN "/" ELSE path[i]]

StartsWith(str, prefix) ==
  Len(prefix) <= Len(str) /\ SubSeq(str, 1, Len(prefix)) = prefix

\* relativePath.replace(/^\/+/, '')
RECURSIVE StripLeadingSlashes(_)
StripLeadingSlashes(str) ==
  IF str # <<>> /\ Head(str) = "/" THEN StripLeadingSlashes(Tail(str)) ELSE str

\* getRelativePath (912-927)
getRelativePath(selectedFolder, filePath) ==
  LET normalizedFolder == NormalizePath(selectedFolder)
      normalizedFile == NormalizePath(filePath)
  IN  IF StartsWith(normalizedFile, normalizedFolder)
      THEN StripLeadingSlashes(SubSeq(normalizedFile, Len(normalizedFolder) + 1,
                                      Len(normalizedFile)))
      ELSE filePath

\* pathUtils.isSubPath (not part of the listed sources): containment on a
\* segment boundary
isSubPath(parent, child) ==
  \/ child = parent
  \/ StartsWith(child, Append(parent, "/"))

\* getFilesInFolder (935-941)
getFilesInFolder(files, folderPath) ==
  SelectSeq(files, LAMBDA file :
    isSubPath(NormalizePath(folderPath), NormalizePath(file.path)))

\* pathUtils.basename (not part of the listed sources): the last segment
RECURSIVE basename(_)
basename(path) ==
  IF \A i \in 1..Len(path) : path[i] # "/" THEN path
  ELSE basename(Tail(path))

\* pathUtils.generateAsciiFileTree (not part of the listed sources): the
\* tree is a function of the files it is given and of the folder
generateAsciiFileTree(files, selectedFolder) ==
  [tree |-> [i \in 1..Len(files) |-> getRelativePath(selectedFolder, files[i].path)]]

\* languageUtils.getLanguageFromFilename (not part of the listed sources)
getLanguageFromFilename(name) ==
  CASE name = "ch.ts" -> "typescript"
    [] name = "d.ts" -> "typescript"
    [] name = "o.md" -> "markdown"
    [] OTHER -> "plaintext"

\* String.prototype.trim on the instruction texts used
Trim(str) == IF str = " do " THEN "do" ELSE IF str = "  " THEN "" ELSE str

NoSelectionMessage == << "No files selected." >>

\* the block of one selected file (1005-1026)
RECURSIVE FileBlocks(_, _)
FileBlocks(sorted, selectedFolder) ==
  IF sorted = <<>> THEN <<>>
  ELSE LET file == Head(sorted)
           normalizedPath == NormalizePath(file.path)
           relativePath == IF selectedFolder # <<>>
                           THEN getRelativePath(selectedFolder, file.path)
                           ELSE <<>>
           pathInfo == IF relativePath # <<>> /\ relativePath # file.path
                       THEN [header |-> "File", folderName |-> basename(selectedFolder),
                             path |-> relativePath]
                       ELSE [header |-> "File", folderName |-> <<>>,
                             path |-> normalizedPath]
       IN  << pathInfo,
              [fence |-> "open", language |-> getLanguageFromFilename(file.name)],
              file.content, [fence |-> "close"], "" >>
           \o FileBlocks(Tail(sorted), selectedFolder)

\* the filter and sort of lines 965-980
SortedSelected(p, locale) ==
  SortBy(SelectSeq(p.files, LAMBDA file : file.path \in p.selectedFiles),
         p.sortOrder, locale)

\* the delimited blocks of lines 986-1035
FormatBlocks(p, sortedSelected) ==
  LET tree == IF p.includeFileTree /\ p.selectedFolder # <<>>
              THEN << "<FILE STRUCTURE>", NormalizePath(p.selectedFolder),
                      generateAsciiFileTree(
                        getFilesInFolder(p.files, p.selectedFolder),
                        p.selectedFolder),
                      "</FILE STRUCTURE>", "" >>
              ELSE <<>>
      instructions == IF Trim(p.userInstructions) # ""
                      THEN << "<user_instructions>", Trim(p.userInstructions),
                              "</user_instructions>" >>
                      ELSE <<>>
  IN  tree \o << "<CODEBASE>" >>
      \o FileBlocks(sortedSelected, p.selectedFolder)
      \o << "</CODEBASE>", "" >> \o instructions

\* faulty variant: no early return for an empty selection
formatContentWithEmptyBlocks(p, env) ==
  FormatBlocks(p, SortedSelected(p, env.locale))

\* formatContentForCopying (956-1036).  The output is the sequence of its
\* lines; a null selectedFolder is the empty path.  env is the runtime the
\* call executes in: its default locale and the number of earlier calls.
formatContentForCopying(p, env) ==
  LET sortedSelected == SortedSelected(p, env.locale)
  IN  IF sortedSelected = <<>> THEN NoSelectionMessage
      ELSE FormatBlocks(p, sortedSelected)

SortOrders ==
  { "name-asc", "name-desc", "tokens-asc", "tokens-desc", "size-desc", "date-asc" }
Locales == { "en", "cs" }

FormatArgs ==
  [files : { l \in FileLists(MaxFiles) : Distinct(l) },
   selectedFiles : SUBSET { PathCh, PathD, PathO },
   sortOrder : SortOrders,
   includeFileTree : BOOLEAN,
   selectedFolder : { <<>>, FolderR },
   userInstructions : { "", " do " }]

\* the same arguments are formatted twice, each time by a runtime with its
\* own default locale
FormatInit ==
  /\ IdleEngine
  /\ ignoreLoaded = TRUE
  /\ chokidarLoaded = TRUE
  /\ encoderReady = TRUE
  /\ probe \in { [op |-> "format", args |-> a, locales |-> l, outs |-> <<>>] :
                   a \in FormatArgs, l \in [1..2 -> Locales] }

FormatCall ==
  /\ probe.op = "format"
  /\ Len(probe.outs) < 2
  /\ probe' = [probe EXCEPT !.outs =
                  Append(@, formatContentForCopying(probe.args,
                              [locale |-> probe.locales[Len(probe.outs) + 1],
                               calls |-> Len(probe.outs)]))]
  /\ UNCHANGED << Caps, Engine, inflight, notified, outbox >>

FormatSpec == FormatInit /\ [][FormatCall]_vars

\* ------------------------------------------------------- safeRelativePath
\* the letters of the paths below, upper case then lower case
LetterPairs ==
  { << "A", "a" >>, << "B", "b" >>, << "C", "c" >>, << "D", "d" >>,
    << "H", "h" >>, << "R", "r" >>, << "S", "s" >>, << "X", "x" >>,
    << "Y", "y" >> }

LowerChar(c) ==
  IF \E q \in LetterPairs : q[1] = c
  THEN (CHOOSE q \in LetterPairs : q[1] = c)[2] ELSE c
UpperChar(c) ==
  IF \E q \in LetterPairs : q[2] = c
  THEN (CHOOSE q \in LetterPairs : q[2] = c)[1] ELSE c

\* String.prototype.toLowerCase and toUpperCase on a sequence of characters
LowerCased(str) == [i \in 1..Len(str) |-> LowerChar(str[i])]
UpperCased(str) == [i \in 1..Len(str) |-> UpperChar(str[i])]

\* filePath.replace(/\\/g, '/')
Slashed(str) == [i \in 1..Len(str) |-> IF str[i] = Backslash THEN "/" ELSE str[i]]

\* normalizePath (21-31)
normalizePath(filePath, platform) ==
  IF filePath = <<>> THEN filePath
  ELSE IF platform = "win32" /\ StartsWith(filePath, << Backslash, Backslash >>)
  THEN << Backslash, Backslash >> \o Slashed(SubSeq(filePath, 3, Len(filePath)))
  ELSE Slashed(filePath)

\* the separators path.relative recognises on a platform
IsSeparator(c, platform) ==
  c = "/" \/ (platform = "win32" /\ c = Backslash)

\* the non-empty segments of a path
RECURSIVE Segments(_, _)
Segments(str, platform) ==
  IF str = <<>> THEN <<>>
  ELSE IF IsSeparator(Head(str), platform) THEN Segments(Tail(str), platform)
  ELSE LET seps == { i \in 1..Len(str) : IsSeparator(str[i], platform) }
           n == IF seps = {} THEN Len(str)
                ELSE (CHOOSE i \in seps : \A j \in seps : i <= j) - 1
       IN  << SubSeq(str, 1, n) >> \o Segments(SubSeq(str, n + 1, Len(str)), platform)

\* process.cwd(), against which path.relative resolves a relative path
CwdSegments == << << "w" >> >>

IsAbsolute(str, platform) ==
  \/ str # <<>> /\ IsSeparator(str[1], platform)
  \/ platform = "win32" /\ Len(str) >= 3 /\ str[2] = ":"
     /\ IsSeparator(str[3], platform)

Resolved(str, platform) ==
  IF IsAbsolute(str, platform) THEN Segments(str, platform)
  ELSE CwdSegments \o Segments(str, platform)

RECURSIVE JoinSegments(_, _)
JoinSegments(segs, sep) ==
  IF segs = <<>> THEN <<>>
  ELSE IF Len(segs) = 1 THEN segs[1]
  ELSE segs[1] \o << sep >> \o JoinSegments(Tail(segs), sep)

\* path.relative(from, to) of the platform: win32 accepts both separators,
\* compares without regard to case and joins with backslashes; posix knows
\* only the forward slash
Relative(from, to, platform) ==
  LET fs == Resolved(from, platform)
      ts == Resolved(to, platform)
      Same(a, b) == IF platform = "win32" THEN LowerCased(a) = LowerCased(b)
                    ELSE a = b
      agree == { n \in 0..Len(fs) :
                   n <= Len(ts) /\ \A i \in 1..n : Same(fs[i], ts[i]) }
      common == CHOOSE n \in agree : \A m \in agree : m <= n
      up == [i \in 1..(Len(fs) - common) |-> << ".", "." >>]
  IN  JoinSegments(up \o SubSeq(ts, common + 1, Len(ts)),
                   IF platform = "win32" THEN Backslash ELSE "/")

\* faulty variant: no lower-casing on win32
safeRelativePathCaseKept(from, to, platform) ==
  normalizePath(Relative(normalizePath(from, platform),
                         normalizePath(to, platform), platform), platform)

\* safeRelativePath (69-82)
safeRelativePath(from, to, platform) ==
  LET f == normalizePath(from, platform)
      t == normalizePath(to, platform)
  IN  normalizePath(
        IF platform = "win32"
        THEN Relative(LowerCased(f), LowerCased(t), platform)
        ELSE Relative(f, t, platform),
        platform)

\* roots: a drive path, a UNC share and a POSIX path; and paths inside them
Roots ==
  { << "C", ":", "/", "A", "b" >>, << "/", "/", "s", "/", "H" >>,
    << "/", "r", "/", "D" >> }
InsideOf(root) ==
  { root \o << "/", "x" >>, root \o << "/", "x", "/", "Y" >> }

\* the spellings of a path: every separator written either way
RECURSIVE SeparatorSpellings(_)
SeparatorSpellings(str) ==
  IF str = <<>> THEN { <<>> }
  ELSE { << c >> \o rest :
           c \in (IF Head(str) = "/" THEN { "/", Backslash } ELSE { Head(str) }),
           rest \in SeparatorSpellings(Tail(str)) }

\* ... and in its own, in lower and in upper case
Spellings(str) ==
  UNION { { v, LowerCased(v), UpperCased(v) } : v \in SeparatorSpellings(str) }

Platforms == { "win32", "linux" }

\* safeRelativePath is applied to a root and a path inside it, and to
\* another spelling of the two
RelativeInit ==
  /\ IdleEngine
  /\ ignoreLoaded = TRUE
  /\ chokidarLoaded = TRUE
  /\ encoderReady = TRUE
  /\ \E root \in Roots : \E path \in InsideOf(root) :
       probe \in { [op |-> "relative", platform |-> pf, root |-> root,
                    path |-> path, root2 |-> r2, path2 |-> p2, results |-> <<>>] :
                     pf \in Platforms, r2 \in Spellings(root),
                     p2 \in Spellings(path) }

RelativeCall ==
  /\ probe.op = "relative"
  /\ probe.results = <<>>
  /\ probe' = [probe EXCEPT !.results =
                  << safeRelativePath(probe.root, probe.path, probe.platform),
                     safeRelativePath(probe.root2, probe.path2, probe.platform) >>]
  /\ UNCHANGED << Caps, Engine, inflight, notified, outbox >>

RelativeSpec == RelativeInit /\ [][RelativeCall]_vars

\* ---------------------------------------------------------------- claims
Walking == { h \in Handlers : handlers[h].pc = "walk" }

InBox(box, m) == \E i \in 1..Len(box) : box[i] = m

\* the turn sent a file-list-data message of invocation h
SentList(box, h) ==
  \E i \in 1..Len(box) : box[i].chan = "file-list-data" /\ box[i].from = h

\* C1: at most one scan walk (a request-file-list handler between setting the
\* loading flag and its terminal outcome) is executing in every reachable state.
C1_SingleFlight == Cardinality(Walking) <= 1

\* C2: a scan request that arrives while the loading flag is set is rejected
\* at once with 'busy': the turn sends exactly that status, the request starts
\* no walk and is not queued, and the rejected invocation never afterwards
\* changes or sends anything (no 'complete', no file list).
C2_BusyStep ==
  (requested' = requested + 1 /\ isLoadingDirectory) =>
     /\ outbox' = << Status(requested', "busy") >>
     /\ handlers'[requested'].pc = "done"
     /\ handlers'[requested'].outcome = "busy"
     /\ handlers'[requested'].walk = NoWalk

C2_BusyStays ==
  \A h \in Handlers :
    handlers[h].outcome = "busy" =>
      /\ handlers'[h] = handlers[h]
      /\ \A i \in 1..Len(outbox') : outbox'[i].from # h

C3_CancelledNeverCompletes ==
  \A h \in Handlers :
    handlers[h].cancelled =>
      /\ ~InBox(outbox, Status(h, "complete"))
      /\ ~SentList(outbox, h)

TimedOut(box, t) ==
  InBox(box, [chan |-> "console", text |-> "timed out", from |-> t])

\* C5: when the safety timer of a scan that is still in its walk fires, the
\* turn does what a manual cancel does (flag reset, timer handle cleared,
\* 'cancelled' sent, the walking invocations marked cancelled); and an
\* invocation that was cancelled or has ended has no pending timer left.
C5_TimerStep ==
  \A t \in Handlers :
    (TimedOut(outbox', t) /\ handlers[t].pc = "walk") =>
       /\ isLoadingDirectory
       /\ ~isLoadingDirectory'
       /\ loadingTimeoutId' = 0
       /\ timers' = {}
       /\ InBox(outbox', Status(0, "cancelled"))
       /\ handlers'[t].cancelled
       /\ handlers'[t].pc = "walk"

C5_NoTimerLeft ==
  \A h \in Handlers :
    (handlers[h].pc = "done" \/ handlers[h].cancelled) => h \notin timers

C5_TimerIsCancel == [][C5_TimerStep]_vars /\ []C5_NoTimerLeft

C5_Witness ==
  \E t \in Handlers :
    /\ TimedOut(outbox, t)
    /\ handlers[t].pc = "walk"
    /\ handlers[t].cancelled
    /\ ~isLoadingDirectory

Live == { w \in Handlers : watchers[w].st \in {"open", "closing"} }

\* C7: a watcher is created only for a scan that reached Completed: the
\* invocation a watcher belongs to ended 'complete' and no cancel (manual or
\* by the timer) was ever accepted for it.
C7_ArmedOnlyCompleted ==
  \A h \in Handlers :
    watchers[h].st # "none" =>
      /\ handlers[h].outcome = "complete"
      /\ ~handlers[h].cancelled

\* C8: at most one watcher is live (created and its close() not yet called
\* and resolved), and a live watcher is the one the handle currentWatcher
\* holds: none is leaked by the handle being overwritten.
C8_OneWatcher ==
  /\ Cardinality(Live) <= 1
  /\ \A w \in Live : currentWatcher = w
  /\ currentWatcher # 0 => currentWatcher \in Live

C8_Witness ==
  \E v, w \in Handlers :
    /\ watchers[v].st = "closed"
    /\ watchers[w].st = "open"
    /\ currentWatcher = w

\* C9: no file-list-data message, and no file-added or file-updated event,
\* carries a file whose root-relative path the session's ruleset ignores.
C9_IgnoredNeverSurfaces ==
  \A i \in 1..Len(outbox) :
    LET m == outbox[i] IN
    /\ m.chan = "file-list-data" =>
         \A k \in 1..Len(m.files) :
           ~Ignores(handlers[m.from].rules, m.files[k].relativePath)
    /\ m.chan \in {"file-added", "file-updated"} =>
         ~Ignores(handlers[m.from].rules, m.file.relativePath)

C9_Witness ==
  \E i \in 1..Len(outbox) :
    /\ outbox[i].chan = "file-list-data"
    /\ Len(outbox[i].files) = 3
    /\ Ignores(handlers[outbox[i].from].rules, << "b.txt" >>)
    /\ Ignores(handlers[outbox[i].from].rules, << "node_modules", "m.js" >>)

\* the FileRecord invariant on one record
FileRecordOk(r) ==
  /\ "content" \in DOMAIN r
  /\ ~(r.isBinary /\ r.isSkipped)
  /\ (r.isBinary \/ r.isSkipped) => r.content = <<>>
  /\ r.content = <<>> => r.tokenCount = 0

\* C10: every record of a file-list-data message and of a file-added or
\* file-updated event satisfies the FileRecord invariant: at most one of
\* binary and skipped, content present and empty when binary or skipped,
\* tokenCount 0 when content is empty.
C10_FileRecordInvariant ==
  \A i \in 1..Len(outbox) :
    LET m == outbox[i] IN
    /\ m.chan = "file-list-data" =>
         \A k \in 1..Len(m.files) : FileRecordOk(m.files[k])
    /\ m.chan \in {"file-added", "file-updated"} => FileRecordOk(m.file)

\* the records of the file lists, and of the file-added and file-updated
\* events, that a turn handed to the renderer
ListRecords(box) ==
  UNION { { box[i].files[k] : k \in 1..Len(box[i].files) } :
            i \in { j \in 1..Len(box) : box[j].chan = "file-list-data" } }

EventRecords(box) ==
  { box[i].file :
      i \in { j \in 1..Len(box) : box[j].chan \in {"file-added", "file-updated"} } }

\* the paths whose content a walk or a watcher pipeline is reading
BeingRead ==
  UNION { { TaskPath(Top(handlers[h].walk), i) :
              i \in { j \in 1..Len(Top(handlers[h].walk).tasks) :
                        Top(handlers[h].walk).tasks[j].st = "read" } } :
            h \in { g \in Walking : Top(handlers[g].walk).phase = "chunk" } }
  \cup
  { inflight[i].path : i \in { j \in 1..Len(inflight) : inflight[j].pc = "read" } }

\* C11: a record of a file larger than MAX_FILE_SIZE, in a file list or in a
\* file-added or file-updated event, is skipped, not binary, has empty
\* content and tokenCount 0 whatever its extension, and no walk and no
\* watcher pipeline ever reads the content of such a file.
C11_OversizedSkipped ==
  /\ \A r \in ListRecords(outbox) \cup EventRecords(outbox) :
       r.size > MAX_FILE_SIZE =>
         /\ r.isSkipped
         /\ ~r.isBinary
         /\ "content" \in DOMAIN r
         /\ r.content = <<>>
         /\ r.tokenCount = 0
  /\ \A p \in BeingRead : FileSize(p) <= MAX_FILE_SIZE

C11_Witness ==
  \E r \in EventRecords(outbox) :
    /\ r.relativePath = << "sub", "big.bin" >>
    /\ r.size > MAX_FILE_SIZE
    /\ r.isSkipped

\* the name's lower-cased extension is in the binary-extension set, in
\* either of the two forms the code compares it in (with or without the dot)
BinaryByExtension(name) ==
  \/ ToLowerCase(ExtName(name)) \in binaryExtensions
  \/ ToLowerCase(Substring1(ExtName(name))) \in binaryExtensions

\* C12: a record (not an error record) of a file with a binary extension and
\* a size of at most MAX_FILE_SIZE, in a file list or in a file-added or
\* file-updated event, has isBinary set and empty content, and the content
\* of such a file is never read.
C12_BinaryByExtension ==
  /\ \A r \in ListRecords(outbox) \cup EventRecords(outbox) :
       (BinaryByExtension(r.name) /\ r.size <= MAX_FILE_SIZE
          /\ "error" \notin DOMAIN r)
         => (r.isBinary /\ r.content = <<>>)
  /\ \A p \in BeingRead :
       ~(BinaryByExtension(p[Len(p)]) /\ FileSize(p) <= MAX_FILE_SIZE)

Removed(box) == { i \in 1..Len(box) : box[i].chan = "file-removed" }

\* C13: a notification the watcher does not ignore starts exactly one run of
\* the single-file pipeline (add, change) or sends exactly one file-removed
\* message that carries the path and no record (unlink); a run of the
\* pipeline ends by sending exactly one event, file-added for add and
\* file-updated for change, with the record of the notified path, whatever
\* the record is; no event is sent otherwise; and every run ends.
C13_Step ==
  /\ (notified' = notified + 1 /\ Removed(outbox') = {}) =>
       /\ Len(inflight') = Len(inflight) + 1
       /\ SubSeq(inflight', 1, Len(inflight)) = inflight
       /\ inflight'[Len(inflight')].pc = "stat"
       /\ outbox' = <<>>
  /\ (notified' = notified + 1 /\ Removed(outbox') # {}) =>
       /\ Len(outbox') = 1
       /\ DOMAIN outbox'[1] = {"chan", "from", "path"}
       /\ outbox'[1].path \in NotifyPaths
       /\ inflight' = inflight
  /\ Len(inflight') < Len(inflight) =>
       \E i \in 1..Len(inflight) :
         /\ inflight' = RemoveAt(inflight, i)
         /\ Len(outbox') = 1
         /\ outbox'[1].chan = EventName(inflight[i].kind)
         /\ outbox'[1].from = inflight[i].w
         /\ outbox'[1].file.relativePath = inflight[i].path
  /\ EventRecords(outbox') # {} => Len(inflight') = Len(inflight) - 1
  /\ (notified' = notified /\ Removed(outbox') # {}) => FALSE

ListedPaths(box) ==
  LET i == CHOOSE j \in 1..Len(box) : box[j].chan = "file-list-data"
  IN  [k \in 1..Len(box[i].files) |-> box[i].files[k].relativePath]

HasList(box) == \E j \in 1..Len(box) : box[j].chan = "file-list-data"

ReasonTexts == { ErrorText(c) : c \in ErrCodes }

\* a turn in which one task of the pending batch of h settled and the batch
\* is still pending
SameBatch(h) ==
  /\ handlers[h].pc = "walk" /\ handlers'[h].pc = "walk"
  /\ Top(handlers[h].walk).phase = "chunk"
  /\ Top(handlers'[h].walk).phase = "chunk"
  /\ Top(handlers'[h].walk).dir = Top(handlers[h].walk).dir

\* C14: while the loading flag is set, the settling of one per-file stat or
\* readFile changes that task alone and leaves a record (never nothing) for
\* it, a skipped one with a reason when the I/O failed; no walk ends its
\* handler with 'error'; every record with a failure reason is skipped with
\* tokenCount 0; and a scan that runs alone still completes with a.txt and,
\* when sub was readable, both files of sub listed.
C14_Step ==
  \A h \in Handlers :
    /\ handlers[h].pc = "walk" => handlers'[h].outcome # "error"
    /\ (SameBatch(h) /\ isLoadingDirectory) =>
         LET old == Top(handlers[h].walk).tasks
             new == Top(handlers'[h].walk).tasks
         IN  \A i \in 1..Len(old) :
               new[i] # old[i] =>
                 /\ \A j \in 1..Len(old) : j # i => new[j] = old[j]
                 /\ new[i].st = "done" => new[i].val # Null
                 /\ (new[i].st = "done" /\ "error" \in DOMAIN new[i].val) =>
                      new[i].val.isSkipped

C14_Records ==
  /\ \A r \in ListRecords(outbox) \cup EventRecords(outbox) :
       "error" \in DOMAIN r =>
         (r.isSkipped /\ ~r.isBinary /\ r.tokenCount = 0 /\ r.error # "")
  /\ (requested = 1 /\ HasList(outbox)) =>
       /\ InBox(outbox, Status(1, "complete"))
       /\ ListedPaths(outbox) \in
            { << <<"a.txt">> >>,
              << <<"sub", "c.BIN">>, <<"sub", "big.bin">>, <<"a.txt">> >> }

C14_FileErrorIsLocal == [][C14_Step]_vars /\ []C14_Records

C14_Witness ==
  /\ requested = 1
  /\ InBox(outbox, Status(1, "complete"))
  /\ \E r, t, u \in ListRecords(outbox) :
       /\ r.relativePath = <<"sub", "c.BIN">>
       /\ "error" \in DOMAIN r /\ r.error = "File not found" /\ r.isSkipped
       /\ t.relativePath = <<"sub", "big.bin">> /\ t.size > MAX_FILE_SIZE
       /\ u.relativePath = <<"a.txt">> /\ "error" \notin DOMAIN u

\* the turn logged a failed readdir of invocation h with one of the codes
ReaddirFailed(box, h, codes) ==
  \E i \in 1..Len(box) :
    /\ box[i].chan = "console" /\ box[i].text = "Error reading directory"
    /\ box[i].from = h /\ box[i].code \in codes

\* C15: when the readdir of a sub-directory fails with a permission error
\* while the loading flag is set, the turn sends no 'error' status and does
\* not end the handler: the call of that directory returns to its parent,
\* which keeps the records it had gathered and goes on to its own files
\* (their batch is pending after the turn).
C15_Step ==
  \A h \in Handlers :
    (handlers[h].pc = "walk" /\ isLoadingDirectory
       /\ Len(handlers[h].walk.stack) >= 2
       /\ ReaddirFailed(outbox', h, {"EPERM", "EACCES"}))
      => LET old == handlers[h].walk.stack
             parent == old[Len(old) - 1]
         IN  /\ ~InBox(outbox', Status(h, "error"))
             /\ handlers'[h].pc = "walk"
             /\ handlers'[h].outcome = "none"
             /\ isLoadingDirectory'
             /\ Len(handlers'[h].walk.stack) = Len(old) - 1
             /\ Top(handlers'[h].walk).dir = parent.dir
             /\ Top(handlers'[h].walk).results = parent.results
             /\ Top(handlers'[h].walk).phase = "chunk"
             /\ \E i \in 1..Len(Top(handlers'[h].walk).tasks) :
                  Top(handlers'[h].walk).tasks[i].st = "stat"

C16_UnexpectedErrorEndsScan ==
  \A h \in Handlers :
    ReaddirFailed(outbox, h, ErrCodes \ {"EPERM", "EACCES"}) =>
      /\ InBox(outbox, Status(h, "error"))
      /\ ~InBox(outbox, Status(h, "complete"))
      /\ handlers[h].outcome = "error"
      /\ ~isLoadingDirectory

\* C17: yarn.lock, which only the static exclusion list matches, is in every
\* file list, with its default-exclusion flag set.
C17_ExcludedStillListed ==
  HasList(outbox) =>
    \E r \in ListRecords(outbox) :
      r.relativePath = << "yarn.lock" >> /\ r.excluded

\* C18: countTokens returns a natural number for every text; it returns 0
\* for the empty text; and when the encoder is missing, or throws on the
\* cleaned text, it returns ceil(length / 4) of the text it was given.
C18_CountTokensTotal ==
  (probe.op = "countTokens" /\ probe.called) =>
    /\ probe.result \in Nat
    /\ probe.text = <<>> => probe.result = 0
    /\ (~encoderReady
          \/ EncodeThrows(SelectSeq(probe.text, LAMBDA c : c # Sentinel)))
         => probe.result = CeilDiv4(TextLength(probe.text))

C18_Witness ==
  /\ probe.op = "countTokens" /\ probe.called
  /\ encoderReady
  /\ probe.text = << Sentinel, OtherSpecial >>
  /\ probe.result = 7

\* the outputs of the formatter calls made so far
FormatOutputs == IF probe.op = "format" THEN probe.outs ELSE <<>>

\* no file of the file list has a path contained in the selection
NoneSelected(p) ==
  \A i \in 1..Len(p.files) : p.files[i].path \notin p.selectedFiles

\* C19: whenever no file of the file list has a path contained in the
\* selection, formatContentForCopying returns exactly the no-selection
\* message and none of the delimited blocks, whatever includeFileTree,
\* selectedFolder and userInstructions are.
C19_NoSelectionMessage ==
  \A k \in 1..Len(FormatOutputs) :
    NoneSelected(probe.args) => FormatOutputs[k] = << "No files selected." >>

\* a call with files, a selection naming none of them, the tree switched on,
\* a folder and instructions has returned the message
C19_Witness ==
  /\ Len(FormatOutputs) >= 1
  /\ NoneSelected(probe.args)
  /\ Len(probe.args.files) >= 2
  /\ probe.args.selectedFiles # {}
  /\ probe.args.includeFileTree
  /\ probe.args.selectedFolder = FolderR
  /\ probe.args.userInstructions = " do "
  /\ FormatOutputs[1] = << "No files selected." >>

\* C20: two calls of formatContentForCopying with identical arguments
\* produce identical output, whatever runtime performs them.
C20_Deterministic ==
  Len(FormatOutputs) = 2 => FormatOutputs[1] = FormatOutputs[2]

\* the files of the list whose path is in the selection, in list order
Filtered(p) == SelectSeq(p.files, LAMBDA file : file.path \in p.selectedFiles)

\* the files whose blocks a formatter output holds, in the order of the
\* blocks: the content line of the i-th block identifies its file
Emitted(p, out) ==
  LET base == IF p.includeFileTree /\ p.selectedFolder # <<>> THEN 6 ELSE 1
  IN  [i \in 1..Len(Filtered(p)) |->
         CHOOSE f \in FileUniverse : f.content = out[base + 5 * (i - 1) + 3]]

PositionIn(list, f) == CHOOSE i \in 1..Len(list) : list[i] = f

\* the value a file is ordered by under a key
SortKeyOf(f, key, locale) ==
  IF key = "name" THEN CollationRank(locale, f.name)
  ELSE IF key = "tokens" THEN f.tokenCount
  ELSE IF key = "size" THEN f.size
  ELSE 0

OrderedOutput(p, out, locale) ==
  LET e == Emitted(p, out)
      o == SplitOrder(p.sortOrder)
      n == Len(e)
  IN  /\ { e[i] : i \in 1..n } = { Filtered(p)[i] : i \in 1..n }
      /\ o.key \in { "name", "tokens", "size" } /\ o.dir = "asc" =>
            \A i, j \in 1..n : i < j =>
              SortKeyOf(e[i], o.key, locale) <= SortKeyOf(e[j], o.key, locale)
      /\ o.key \in { "name", "tokens", "size" } /\ o.dir = "desc" =>
            \A i, j \in 1..n : i < j =>
              SortKeyOf(e[i], o.key, locale) >= SortKeyOf(e[j], o.key, locale)
      /\ \A i, j \in 1..n :
            i < j /\ SortKeyOf(e[i], o.key, locale) = SortKeyOf(e[j], o.key, locale)
            => PositionIn(Filtered(p), e[i]) < PositionIn(Filtered(p), e[j])
      /\ o.key \notin { "name", "tokens", "size" } => e = Filtered(p)

\* C21: the selected files are emitted in ascending order of the requested
\* key for direction asc and in descending order for desc; files that
\* compare equal on the key keep their relative order from the filtered
\* list in both directions; an unrecognised key leaves the filtered order
\* unchanged.  The name key is ordered by the collation of the runtime that
\* performs the call.
C21_SortedAndStable ==
  \A k \in 1..Len(FormatOutputs) :
    ~NoneSelected(probe.args) =>
      OrderedOutput(probe.args, FormatOutputs[k], probe.locales[k])

\* a descending sort by tokens has emitted o.md last and the two files that
\* tie on their token count in list order, d.ts before ch.ts
C21_Witness ==
  /\ Len(FormatOutputs) >= 1
  /\ probe.args.files = << FileO, FileD, FileCh >>
  /\ probe.args.selectedFiles = { PathCh, PathD, PathO }
  /\ probe.args.sortOrder = "tokens-desc"
  /\ Emitted(probe.args, FormatOutputs[1]) = << FileD, FileCh, FileO >>

\* the header line of the i-th file block of a formatter output
HeaderOf(p, out, i) ==
  LET base == IF p.includeFileTree /\ p.selectedFolder # <<>> THEN 6 ELSE 1
  IN  out[base + 5 * (i - 1) + 1]

\* the folder is an ancestor of the file on a path-segment boundary
LiesInside(folder, path) ==
  /\ folder # <<>>
  /\ StartsWith(NormalizePath(path), Append(NormalizePath(folder), "/"))
  /\ Len(path) > Len(folder) + 1

\* the path of the file below the folder
PathBelow(folder, path) ==
  SubSeq(NormalizePath(path), Len(folder) + 2, Len(path))

\* C22: in the CODEBASE block the header of a selected file shows the
\* folder-name-prefixed relative path exactly when the file lies inside the
\* selected folder on a path-segment boundary, and the normalized absolute
\* path otherwise.
C22_HeaderPath ==
  \A k \in 1..Len(FormatOutputs) :
    ~NoneSelected(probe.args) =>
      LET p == probe.args
          e == Emitted(p, FormatOutputs[k])
      IN  \A i \in 1..Len(e) :
            HeaderOf(p, FormatOutputs[k], i) =
              IF LiesInside(p.selectedFolder, e[i].path)
              THEN [header |-> "File", folderName |-> basename(p.selectedFolder),
                    path |-> PathBelow(p.selectedFolder, e[i].path)]
              ELSE [header |-> "File", folderName |-> <<>>,
                    path |-> NormalizePath(e[i].path)]

\* two spellings differ in nothing but their separators
SameButSeparators(a, b) == Slashed(a) = Slashed(b)

\* C23: for a root and a path inside it safeRelativePath gives the same
\* result whether the two are written with backslashes or forward slashes,
\* and on win32 also whatever their letter case.
C23_SpellingIndependent ==
  /\ probe.op = "relative"
  /\ probe.results # <<>>
  /\ \/ probe.platform = "win32"
     \/ /\ SameButSeparators(probe.root, probe.root2)
        /\ SameButSeparators(probe.path, probe.path2)
  => probe.results[1] = probe.results[2]

\* on win32 a UNC root written with backslashes and in upper case, and a
\* path inside it in lower case with mixed separators, gave the result of
\* the plain spelling
C23_Witness ==
  /\ probe.op = "relative"
  /\ probe.platform = "win32"
  /\ probe.root = << "/", "/", "s", "/", "H" >>
  /\ probe.root2 = << Backslash, Backslash, "S", Backslash, "H" >>
  /\ probe.path2 = << "/", "/", "s", Backslash, "h", "/", "x", Backslash, "y" >>
  /\ probe.results = << << "x", "/", "y" >>, << "x", "/", "y" >> >>

\* the turn sent a progress message
SentProgress(box) ==
  \E i \in 1..Len(box) :
    box[i].chan = "file-processing-status" /\ box[i].status = "processing"

\* the walk v continues the walk w without passing a boundary: no call was
\* entered, no batch started, nothing merged
NoBoundaryPassed(w, v) ==
  /\ Len(v.stack) <= Len(w.stack)
  /\ \A i \in 1..Len(v.stack) :
       /\ v.stack[i].results = w.stack[i].results
       /\ v.stack[i].processedFiles = w.stack[i].processedFiles
       /\ v.stack[i].phase = "readdir" => w.stack[i].phase = "readdir"
       /\ v.stack[i].phase = "chunk" =>
            w.stack[i].phase = "chunk" /\ v.stack[i].ci = w.stack[i].ci

C24_Step ==
  (~isLoadingDirectory /\ ~isLoadingDirectory' /\ requested' = requested) =>
     /\ \A h \in Handlers : NoBoundaryPassed(handlers[h].walk, handlers'[h].walk)
     /\ ~SentProgress(outbox')

\* C24: from the acceptance of a cancel until a new scan is requested (the
\* loading flag stays cleared), the cancelled walk enters no further
\* directory, starts no further batch, merges no further batch result into
\* an accumulated list and emits no further progress message.
C24_StopsAtBoundary == [][C24_Step]_vars

\* a walk cancelled after it had merged its first batch has returned without
\* the file of the second batch, with no other scan requested
C24_Witness ==
  \E h \in Handlers :
    /\ requested = 1
    /\ ~isLoadingDirectory
    /\ handlers[h].cancelled
    /\ handlers[h].outcome = "dropped"
    /\ \E i \in 1..Len(handlers[h].partial) : handlers[h].partial[i].name = "w1.txt"
    /\ \A i \in 1..Len(handlers[h].partial) : handlers[h].partial[i].name # "w3.txt"

\* the watchers that are armed and not closed
LiveWatchers == { w \in Handlers : watchers[w].st = "open" }

\* C25: while a scan is in its walk no watcher is live: the previous watcher
\* was closed before the loading flag was set, and none is armed until the
\* scan has completed.
C25_NoWatcherWhileScanning == Walking # {} => LiveWatchers = {}

\* relative paths of the root, among them the root itself, a path outside
\* it and one below an ignored directory
VerdictPaths ==
  NotifyPaths \cup { <<>>, <<"yarn.lock">>, <<"node_modules", "m.js">>,
                     <<"..", "x.txt">>, <<"sub">>, <<"Tool.app", "x.txt">> }

\* the path an event of a watcher is about
EventPath(m) == IF m.chan = "file-removed" THEN m.path ELSE m.file.relativePath

WatcherEvents(box) ==
  { i \in 1..Len(box) : box[i].chan \in { "file-added", "file-updated", "file-removed" } }

C26_Step ==
  \A h \in Handlers :
    /\ handlers[h].rules # <<>> => handlers'[h].rules = handlers[h].rules
    /\ (handlers[h].rules = <<>> /\ handlers'[h].rules # <<>>) =>
         handlers'[h].rules = loadGitignore(GitignoreLines)

C26_Verdicts ==
  /\ \A h \in Handlers : \A p \in VerdictPaths :
       handlers[h].rules # <<>> /\ p # <<>> =>
         /\ WatcherIgnored(handlers[h].rules, p)
              = (SingleStart(p, handlers[h].rules) = "null")
         /\ ~IsAppBundle(p) =>
              WatcherIgnored(handlers[h].rules, p)
                = (StartTask(p, TRUE, handlers[h].rules).st = "done")
  /\ \A i \in WatcherEvents(outbox) :
       ~WatcherIgnored(handlers[outbox[i].from].rules, EventPath(outbox[i]))
  /\ \A i \in 1..Len(outbox) :
       outbox[i].chan = "file-list-data" =>
         \A j \in 1..Len(outbox[i].files) :
           ~Ignores(handlers[outbox[i].from].rules, outbox[i].files[j].relativePath)

ScannerTask(rel, rules, statOutcome, readOutcome) ==
  LET name == rel[Len(rel)]
      a == TaskAfterStat(name, rel, statOutcome, TRUE)
  IN  IF StartTask(rel, TRUE, rules).st = "done" THEN Null
      ELSE IF a.st = "done" THEN a.val
      ELSE TaskAfterRead(name, rel, readOutcome, TRUE).val

ContentOf(r) == IF "content" \in DOMAIN r THEN r.content ELSE <<>>

SameOutcome(r, t) ==
  /\ t # Null
  /\ r.isBinary = t.isBinary
  /\ r.isSkipped = t.isSkipped
  /\ ContentOf(r) = ContentOf(t)
  /\ r.tokenCount = t.tokenCount

\* C27: the record processSingleFile produces for a file is one a scanner
\* per-file task produces for the same file, root and ruleset: same
\* isBinary, isSkipped, content and tokenCount, so the same extensions
\* count as binary.
C27_SamePipeline ==
  \A i \in 1..Len(outbox) :
    outbox[i].chan \in { "file-added", "file-updated" } =>
      LET r == outbox[i].file
          p == r.relativePath
      IN  \E so \in IoOutcomes(p), ro \in IoOutcomes(p) :
            SameOutcome(r, ScannerTask(p, handlers[outbox[i].from].rules, so, ro))

C28_Step ==
  (requested' = requested + 1 /\ isLoadingDirectory) =>
     /\ outbox' = << Status(requested', "busy") >>
     /\ isLoadingDirectory' = isLoadingDirectory
     /\ loadingTimeoutId' = loadingTimeoutId
     /\ timers' = timers
     /\ currentWatcher' = currentWatcher
     /\ watchers' = watchers
     /\ \A h \in Handlers \ { requested' } : handlers'[h] = handlers[h]

\* C28: a scan request that arrives while the loading flag is set changes
\* nothing but the 'busy' status it emits: the loading flag, the pending
\* safety timer, the watcher handle and the watchers, and the running
\* invocations are left as they were.
C28_BusyChangesNothing == [][C28_Step]_vars

\* a request was rejected as busy and the scan it met still has its flag and
\* its timer
C28_Witness ==
  /\ requested >= 2
  /\ handlers[requested].outcome = "busy"
  /\ outbox = << Status(requested, "busy") >>
  /\ isLoadingDirectory
  /\ loadingTimeoutId # 0
  /\ loadingTimeoutId \in timers
  /\ handlers[loadingTimeoutId].pc = "walk"

RECURSIVE Flatten(_)
Flatten(seqs) == IF seqs = <<>> THEN <<>> ELSE Head(seqs) \o Flatten(Tail(seqs))

\* the paths of the files below dir that the ruleset admits, sub-directories
\* first (each in full, in enumeration order), then the directory's own
\* files in enumeration order
RECURSIVE DepthFirstOrder(_, _)
DepthFirstOrder(dir, rules) ==
  LET ds == SelectSeq(Names(Dirents(dir), "dir"),
                      LAMBDA n : ~Ignores(rules, Append(dir, n)))
      fs == SelectSeq(Names(Dirents(dir), "file"),
                      LAMBDA n : ~Ignores(rules, Append(dir, n)))
  IN  Flatten([i \in 1..Len(ds) |-> DepthFirstOrder(Append(dir, ds[i]), rules)])
      \o [i \in 1..Len(fs) |-> Append(dir, fs[i])]

\* a is b with some elements left out
InOrderOf(a, b) ==
  /\ \A i \in 1..Len(a) : \E k \in 1..Len(b) : b[k] = a[i]
  /\ \A i, j \in 1..Len(a) :
       i < j => \A k, l \in 1..Len(b) : (b[k] = a[i] /\ b[l] = a[j]) => k < l

\* the invocation whose file list the turn sent
ListSender(box) ==
  box[CHOOSE j \in 1..Len(box) : box[j].chan = "file-list-data"].from

\* C29: in the file list of a completed scan the records of a directory's
\* sub-directories (nested ones included, in enumeration order) come
\* before the records of its own files, and its own files come in batch
\* order and in enumeration order within a batch, whatever order the tasks
\* of a batch finished in; the list of a run with a single request, in a
\* folder whose I/O succeeds, is exactly that sequence.
C29_ListOrder ==
  HasList(outbox) =>
    LET expected == DepthFirstOrder(<<>>, handlers[ListSender(outbox)].rules)
    IN  /\ InOrderOf(ListedPaths(outbox), expected)
        /\ requested = 1 => ListedPaths(outbox) = expected

\* the list of the wide folder: the file of the sub-directory, then the two
\* files of the first batch, then the file of the second batch
C29_Witness ==
  /\ HasList(outbox)
  /\ ListedPaths(outbox) =
       << <<"d", "e.txt">>, <<"w1.txt">>, <<"w2.txt">>, <<"w3.txt">> >>

\* the progress messages of the file loop that invocation h sent in a turn
FileProgressOf(box, h) ==
  { i \in 1..Len(box) :
      /\ box[i].chan = "file-processing-status"
      /\ box[i].status = "processing"
      /\ box[i].from = h
      /\ "phase" \in DOMAIN box[i]
      /\ box[i].phase = "files" }

\* invocation h awaits the batch of its innermost call
InBatch(h) ==
  /\ handlers[h].pc = "walk"
  /\ handlers[h].walk.stack # <<>>
  /\ Top(handlers[h].walk).phase = "chunk"

\* in the step the innermost call of h is still awaiting the same batch
StillInBatch(h) ==
  LET d == Len(handlers[h].walk.stack) IN
  /\ handlers'[h].pc = "walk"
  /\ Len(handlers'[h].walk.stack) = d
  /\ handlers'[h].walk.stack[d].phase = "chunk"
  /\ handlers'[h].walk.stack[d].ci = handlers[h].walk.stack[d].ci

\* a batch holds the next CHUNK_SIZE files of the directory, or the rest
C30_Batches ==
  \A h \in Handlers :
    InBatch(h) =>
      LET f == Top(handlers[h].walk) IN
      /\ Len(f.tasks) <= CHUNK_SIZE
      /\ Len(f.tasks) = Min(CHUNK_SIZE, Len(f.files) - f.ci + 1)
      /\ f.processedFiles = f.ci - 1

C30_Step ==
  \A h \in Handlers :
    IF InBatch(h) /\ isLoadingDirectory /\ ~StillInBatch(h)
    THEN \* the last task of the batch resolved: the batch is merged
      LET f == Top(handlers[h].walk)
          d == Len(handlers[h].walk.stack)
          processed == f.processedFiles + Len(f.tasks)
      IN  /\ Cardinality({ i \in 1..Len(f.tasks) : f.tasks[i].st # "done" }) = 1
          /\ Cardinality(FileProgressOf(outbox', h)) = 1
          /\ InBox(outbox', FileProgress(h, processed, Len(f.files)))
          /\ processed > f.processedFiles
          /\ processed <= Len(f.files)
          /\ f.ci + CHUNK_SIZE > Len(f.files) => processed = Len(f.files)
          /\ (handlers'[h].pc = "walk" /\ Len(handlers'[h].walk.stack) >= d) =>
               /\ handlers'[h].walk.stack[d].processedFiles = processed
               /\ Len(handlers'[h].walk.stack[d].results) >= Len(f.results)
               /\ SubSeq(handlers'[h].walk.stack[d].results, 1, Len(f.results))
                    = f.results
    ELSE \* no batch is complete: nothing is merged, no progress is reported
      /\ FileProgressOf(outbox', h) = {}
      /\ (InBatch(h) /\ StillInBatch(h)) =>
           LET d == Len(handlers[h].walk.stack) IN
           /\ handlers'[h].walk.stack[d].results = handlers[h].walk.stack[d].results
           /\ handlers'[h].walk.stack[d].processedFiles
                = handlers[h].walk.stack[d].processedFiles

\* C30: the files of a directory are processed in batches of at most
\* CHUNK_SIZE (20); the records of a batch are merged into the accumulated
\* list only in the turn in which its last task resolves, and that turn
\* sends one progress message processed/total in which processed has grown,
\* does not exceed total and equals total after the last batch; no other
\* turn merges a batch or reports file progress.
C30_BatchesAndProgress == [][C30_Step]_vars /\ []C30_Batches

\* the first batch of the wide folder was merged: 20 of 22 files processed
C30_Witness ==
  \E h \in Handlers :
    /\ InBox(outbox, FileProgress(h, CHUNK_SIZE, 22))
    /\ InBatch(h)
    /\ Len(Top(handlers[h].walk).results) = 3
    /\ Len(Top(handlers[h].walk).tasks) = 2

\* the paths a walk or a watcher pipeline has an I/O operation pending for
PendingPaths ==
  UNION { { TaskPath(Top(handlers[h].walk), i) :
              i \in { j \in 1..Len(Top(handlers[h].walk).tasks) :
                        Top(handlers[h].walk).tasks[j].st \in {"stat", "read"} } } :
            h \in { g \in Walking : Top(handlers[g].walk).phase = "chunk" } }
  \cup { inflight[i].path : i \in 1..Len(inflight) }

\* the directories the walks are in
EnteredDirs ==
  UNION { { handlers[h].walk.stack[k].dir : k \in 1..Len(handlers[h].walk.stack) } :
            h \in Walking }

\* C31: no record of a file list or of a file-added or file-updated event
\* has a relativePath that begins with '..'; a path that does is left out
\* without any I/O on it (no stat, no readFile, its directory never entered)
\* and without a report of failure: no skipped record, no directory error
\* logged for it, and no 'error' status unless the ignore module is missing.
C31_NoRecordOutsideRoot ==
  /\ \A r \in ListRecords(outbox) \cup EventRecords(outbox) :
       ~OutsideRoot(r.relativePath)
  /\ \A p \in PendingPaths \cup EnteredDirs : ~OutsideRoot(p)
  /\ \A i \in 1..Len(outbox) :
       /\ outbox[i].chan = "console" /\ outbox[i].text = "Error reading directory"
            => ~OutsideRoot(outbox[i].dir)
       /\ outbox[i].chan = "file-processing-status" /\ outbox[i].status = "error"
            => ~ignoreLoaded

C31_Witness ==
  /\ ScannedFolder = "dotted"
  /\ \E i \in 1..Len(outbox) :
       /\ outbox[i].chan = "file-list-data"
       /\ InBox(outbox, Status(outbox[i].from, "complete"))
       /\ { r.relativePath : r \in ListRecords(outbox) } = { <<"a.txt">> }

\* C32: the watcher's ignored predicate answers false for the root itself
\* (the empty relative path) whatever the ruleset holds, and never hands the
\* empty path to the ruleset matcher; every other path inside the root gets
\* the matcher's verdict.
C32_RootNeverIgnored ==
  (probe.op = "ignored" /\ probe.called) =>
    /\ probe.path = <<>> => ~probe.result.ignored
    /\ \A i \in 1..Len(probe.result.asked) : probe.result.asked[i] # <<>>
    /\ (probe.path # <<>> /\ ~OutsideRoot(probe.path)) =>
         /\ probe.result.ignored = Ignores(probe.rules, probe.path)
         /\ probe.result.asked = << probe.path >>

C32_Witness ==
  /\ probe.op = "ignored" /\ probe.called
  /\ probe.path = <<>>
  /\ ~probe.result.ignored
  /\ probe.result.asked = <<>>
  /\ Ignores(probe.rules, << "a.txt" >>)
  /\ Ignores(probe.rules, << "sub", "c.BIN" >>)

\* a turn delivered a watcher event of watcher w
EventFrom(box, w) ==
  \E i \in 1..Len(box) :
    /\ box[i].chan \in {"file-added", "file-updated", "file-removed"}
    /\ box[i].from = w

\* C33: the turn of a watcher error only logs: the watcher stays open and
\* stays the current one, its root and ruleset and every pending listener
\* are unchanged; a watcher that has erred and is open still has its
\* notifications raised; and an open watcher leaves that state only in the
\* turn of a scan request or of the closing of the window.
C33_ErrorStep ==
  \A w \in Handlers :
    (w \in Erred' /\ w \notin Erred) =>
      /\ watchers' = watchers
      /\ watchers'[w].st = "open"
      /\ currentWatcher' = currentWatcher
      /\ handlers' = handlers
      /\ inflight' = inflight
      /\ isLoadingDirectory' = isLoadingDirectory
      /\ outbox' = << WatcherErrorLog(w) >>

C33_CloseStep ==
  \A w \in Handlers :
    (watchers[w].st = "open" /\ watchers'[w].st # "open") =>
      \/ requested' = requested + 1
      \/ WindowWasClosed' /\ ~WindowWasClosed

C33_StillNotified ==
  (\E w \in Erred : watchers[w].st = "open") /\ notified < MaxNotifications
    => ENABLED NotifyAddChange /\ ENABLED NotifyUnlink

C33_ErrorKeepsSession ==
  [][C33_ErrorStep /\ C33_CloseStep]_vars /\ []C33_StillNotified

C33_Witness ==
  \E w \in Erred :
    /\ watchers[w].st = "open"
    /\ currentWatcher = w
    /\ EventFrom(outbox, w)

\* C34: when the handler of one scan ends (completion branch, error branch
\* or finally block) while a scan accepted later is in its walk, the turn
\* leaves the loading flag, the timer handle and the pending timer of the
\* later scan as they were.
C34_Step ==
  \A h, g \in Handlers :
    (/\ h < g
     /\ handlers[h].pc = "walk" /\ handlers'[h].pc = "done"
     /\ handlers[g].pc = "walk" /\ handlers'[g].pc = "walk")
    => /\ isLoadingDirectory' = isLoadingDirectory
       /\ loadingTimeoutId' = loadingTimeoutId
       /\ (g \in timers => g \in timers')

C34_TerminationIsLocal == [][C34_Step]_vars

\* the terminal statuses sent for invocation h: 'cancelled' when a cancel was
\* accepted during its walk, 'complete' and 'error' by its own handler
TerminalStatuses(h) ==
  (IF handlers[h].cancelled THEN {"cancelled"} ELSE {})
  \cup (IF handlers[h].outcome \in {"complete", "error"}
        THEN {handlers[h].outcome} ELSE {})

\* C35: an accepted scan request whose handler has ended was answered by
\* exactly one of the statuses 'complete', 'cancelled' and 'error'; and
\* while its handler runs, by at most one.
C35_OneTerminalStatus ==
  \A h \in Handlers :
    /\ Cardinality(TerminalStatuses(h)) <= 1
    /\ (handlers[h].pc = "done" /\ handlers[h].outcome # "busy")
         => Cardinality(TerminalStatuses(h)) = 1

\* C36: between two turns the loading flag is set exactly when a safety
\* timer is pending; the pending timer is the one loadingTimeoutId holds, it
\* is the only one, and it was set by an invocation that is in its walk.
C36_TimerIffLoading ==
  /\ isLoadingDirectory <=> timers # {}
  /\ isLoadingDirectory <=> loadingTimeoutId # 0
  /\ timers \subseteq { loadingTimeoutId }
  /\ \A t \in timers : handlers[t].pc = "walk" /\ ~handlers[t].cancelled

C36_Witness ==
  /\ isLoadingDirectory
  /\ loadingTimeoutId = 2
  /\ timers = {2}
  /\ handlers[1].pc = "walk"
  /\ handlers[1].cancelled

\* the invocations of the request-file-list handler that have started and
\* not ended
InProgress == { h \in Handlers : handlers[h].pc \in {"busyClose", "preClose", "walk"} }

\* C37: whenever no request-file-list handler is in progress the loading
\* flag is false, and a scan request that arrives then is accepted: its turn
\* sends no 'busy' and the invocation goes on to close the watcher or to scan.
C37_Step ==
  (InProgress = {} /\ requested' = requested + 1) =>
    /\ handlers'[requested'].outcome # "busy"
    /\ ~InBox(outbox', Status(requested', "busy"))
    /\ \/ handlers'[requested'].pc = "preClose"
       \/ InBox(outbox', Status(requested', "processing"))

C37_NeverStuckBusy ==
  [](InProgress = {} => ~isLoadingDirectory) /\ [][C37_Step]_vars

C37_Witness ==
  /\ handlers[1].pc = "done"
  /\ handlers[1].outcome \in {"complete", "dropped"}
  /\ handlers[2].pc = "walk"
  /\ InBox(outbox, Status(2, "processing"))

\* the pending add/change listeners of watcher w for path p, by their place
\* in the queue, which is the order of their notifications
PendingFor(w, p) ==
  { i \in 1..Len(inflight) : inflight[i].w = w /\ inflight[i].path = p }

\* the listener whose result the turn delivered: the first from which the
\* queue after the turn results by removal
DeliveredIndex ==
  IF outbox' # <<>> /\ Len(inflight') = Len(inflight) - 1
  THEN { i \in 1..Len(inflight) :
           /\ inflight' = RemoveAt(inflight, i)
           /\ \A j \in 1..(i - 1) : inflight' # RemoveAt(inflight, j) }
  ELSE {}

\* C38: the events of one path leave in the order of their notifications: a
\* file-removed is sent for a path only when no add/change listener of an
\* earlier notification for that path is still pending (each pending
\* listener ends by sending its event), and a listener delivers its record
\* only when no listener of an earlier notification for the same path is
\* still pending.
C38_Step ==
  /\ \A k \in 1..Len(outbox') :
       outbox'[k].chan = "file-removed" =>
         PendingFor(outbox'[k].from, outbox'[k].path) = {}
  /\ \A i \in DeliveredIndex :
       \A j \in PendingFor(inflight[i].w, inflight[i].path) : ~(j < i)

C38_EventsInOrder == [][C38_Step]_vars

\* a scan request later than invocation w has been accepted: its handler is
\* past the close of the previous watcher
AcceptedAfter(w) ==
  \E h \in Handlers :
    /\ h > w
    /\ handlers[h].pc \in {"walk", "done"}
    /\ handlers[h].outcome # "busy"

\* C39: no turn delivers a file-added or file-updated event of a watcher
\* that has been closed for a later, accepted scan request.
C39_NoEventAfterClose ==
  \A k \in 1..Len(outbox) :
    outbox[k].chan \in {"file-added", "file-updated"} =>
      ~(watchers[outbox[k].from].st = "closed" /\ AcceptedAfter(outbox[k].from))

\* C40: while the loading flag is false a cancel is a no-op: what
\* cancelDirectoryLoading leaves behind is the state it found (flag, timer
\* handle, pending timers, watcher handle, watchers, handlers) with nothing
\* sent; and no timer is pending then, so no timer callback can run.
C40_IdleCancelIsNoOp ==
  ~isLoadingDirectory =>
    /\ cancelDirectoryLoading(State) = State
    /\ timers = {}

\* a cancel arrived while the watcher of a completed scan was open
C40_Witness ==
  /\ ~isLoadingDirectory
  /\ requested = 1
  /\ notified = 0
  /\ handlers[1].outcome = "complete"
  /\ currentWatcher = 1
  /\ watchers[1].st = "open"
  /\ outbox = <<>>
====
